---- MODULE Spec2Model ----
(***************************************************************************)
(* Model of the dataguard validation pipeline: the process-wide            *)
(* ErrorCollector, the error handlers, the Validator of the dataguard      *)
(* package and the Validator of the peh_validation_library package, and    *)
(* the construction of composite check expressions and their compilation  *)
(* into checks.                                                            *)
(*                                                                         *)
(* The table engine (polars) and the validation runtime (pandera) are      *)
(* external: every outcome they can produce is an input of the action that *)
(* calls them.  A raised exception is carried as its class name; "none"    *)
(* is a normal return.                                                     *)
(***************************************************************************)
EXTENDS Integers, Sequences, FiniteSets, TLC

VARIABLES errors, exceptions, COUNTER, df_schema, last, expr, objects, memo, check,
          parsed

vars == <<errors, exceptions, COUNTER, df_schema, last, expr, objects, memo, check,
          parsed>>

\* ---------------------------------------------------------------- bounds
\* a handler stores through ErrorCollector() while the instance of the
\* Validator class holds fewer entries than this
MaxShared == 2
\* a Validator call is made while the collector holds fewer entries (reports
\* + exception records) than this
MaxEntries == 1
\* add_errors is called while the collector holds fewer entries than this
MaxReports == 2
\* most schema_errors one SchemaErrors batch carries
MaxBatch == 2
\* most children offered to a CaseCheckExpression constructor
MaxChildren == 3
\* deepest nesting of a CaseCheckExpression
MaxDepth == 2
\* most column mappings in the `columns` of a configuration
MaxColumns == 2
\* most check entries in the `checks` of a configuration
MaxChecks == 1
\* get_df_schema is called on one configuration object at most this many times
MaxParses == 2
\* most elements of the subject, arg_values or arg_columns of an expression
MaxArgs == 2

\* ------------------------------------------------------------ enumerations
ErrorLevel == {"warning", "error", "critical"}

CheckCases == {"condition", "conjunction", "disjunction"}

\* the attribute `unique` of the schema a SchemaError(s) refers to:
\* a DataFrameSchema holds None, [] or the ids; a Column holds a bool
Truthy(u) == u \in {"ids", "True"}

IsListOfStr(u) == u \in {"empty", "ids"}

\* ------------------------------------------------- ErrorCollector (state)
Collector == [errors |-> errors, exceptions |-> exceptions, COUNTER |-> COUNTER]

EmptyCollector == [errors |-> <<>>, exceptions |-> <<>>, COUNTER |-> 0]

Ok(c) == [raised |-> "none", c |-> c]

Raise(cls, c) == [raised |-> cls, c |-> c]

\* ------------------------------------------------------------ row indices
RECURSIVE RowIdxFrom(_, _)
RowIdxFrom(mask, i) ==
    IF i > Len(mask) THEN <<>>
    ELSE (IF mask[i] = "false" THEN <<i - 1>> ELSE <<>>) \o RowIdxFrom(mask, i + 1)

\* create_row_idx(df): the zero-based positions whose check_output is False;
\* df = None has no .lazy(): AttributeError
create_row_idx(df) ==
    IF df.none THEN [raised |-> "AttributeError", value |-> <<>>]
    ELSE [raised |-> "none", value |-> RowIdxFrom(df.mask, 1)]

\* from_schema_error(schema_error): the AttributeError of a missing
\* check_output is caught and gives no row ids
from_schema_error(schema_error) ==
    LET r == create_row_idx(schema_error.check_output)
    IN IF r.raised = "AttributeError" THEN <<>> ELSE r.value

\* --------------------------------------------------- ErrorCollector (code)
\* One record of a report.  type is DFErrorSchema.type ("None" for the
\* ErrorSchema that add_errors builds, which has no such field).  A title
\* or a message is a sequence of the pieces of its text.
ErrorRecord(type, level, title, message, row_ids, idx_columns) ==
    [type |-> type, level |-> level, title |-> title, message |-> message,
     row_ids |-> row_ids, idx_columns |-> idx_columns]

\* add_errors, lines 50-84: the record of one element of a SchemaErrors batch
BatchRecord(err, idx_columns) ==
    LET row_ids == from_schema_error(err)
    IN IF Len(row_ids) = 0
       THEN ErrorRecord("None", "critical", <<err.reason>>, err.str, row_ids, idx_columns)
       ELSE IF err.check # "str"
       THEN ErrorRecord("None", err.name, err.title, err.error, row_ids, idx_columns)
       ELSE ErrorRecord("None", "error", err.text, err.text, row_ids, idx_columns)

\* add_errors, lines 89-117: the record of a single SchemaError; the schema
\* of a SchemaError has no attribute `level` (ErrorLevel.CRITICAL.name), no
\* attribute `message` (str(error)) and a title of None (its name)
SingleRecord(error) ==
    ErrorRecord("None", "CRITICAL", <<"schema">>, error.str,
                from_schema_error(error), error.unique)

\* StoreReport with the report put in front of the earlier ones
StoreReportAtHead(c, name, errs) ==
    IF Len(errs) > 0
    THEN [c EXCEPT !.errors = <<[name |-> name, errors |-> errs,
                                 total_errors |-> Len(errs), id |-> c.COUNTER]>> \o @,
                   !.COUNTER = @ + Len(errs)]
    ELSE c

\* StoreReport with the counter counting reports instead of records
StoreReportByOne(c, name, errs) ==
    IF Len(errs) > 0
    THEN [c EXCEPT !.errors = Append(@, [name |-> name, errors |-> errs,
                                         total_errors |-> Len(errs), id |-> c.COUNTER]),
                   !.COUNTER = @ + 1]
    ELSE c

\* add_errors, lines 119-132: the report gets the counter as its id and the
\* counter advances by the number of records
StoreReport(c, name, errs) ==
    IF Len(errs) > 0
    THEN [c EXCEPT !.errors = Append(@, [name |-> name, errors |-> errs,
                                         total_errors |-> Len(errs), id |-> c.COUNTER]),
                   !.COUNTER = @ + Len(errs)]
    ELSE c

\* ErrorCollector.add_errors(error).  An error whose error_traceback is
\* truthy goes to the exceptions (lines 40-42); an ExceptionSchema whose
\* error_traceback is '' is taken for a SchemaError, and has no schema to
\* read a title from: AttributeError.  ErrorSchema.idx_columns is list[str]:
\* any other value fails pydantic validation before anything is stored.
add_errors(c, error) ==
    IF error.kind = "ExceptionSchema" /\ error.error_traceback # ""
    THEN Ok([c EXCEPT !.exceptions = Append(@, [type |-> error.type, level |-> error.level])])
    ELSE IF error.kind = "ExceptionSchema" THEN Raise("AttributeError", c)
    ELSE IF ~IsListOfStr(error.unique) THEN Raise("ValidationError", c)
    ELSE IF error.kind = "SchemaErrors" /\ Len(error.schema_errors) > 0
    THEN Ok(StoreReport(c, "schema",
                        [i \in 1..Len(error.schema_errors) |->
                            BatchRecord(error.schema_errors[i], error.unique)]))
    ELSE Ok(StoreReport(c, "schema", <<SingleRecord(error)>>))

\* ErrorCollector.get_errors(): both sequences as they are
get_errors(c) == [error_reports |-> c.errors, exceptions |-> c.exceptions]

\* clear_errors that empties both lists and keeps the counter
ClearErrorsKeepsCounter(c) == [errors |-> <<>>, exceptions |-> <<>>, COUNTER |-> c.COUNTER]

\* ErrorCollector.clear_errors()
clear_errors(c) == [errors |-> <<>>, exceptions |-> <<>>, COUNTER |-> 0]

\* ---------------------------------- ErrorCollector (methods not in src/)
\* add_error_report(report): "assigns the next counter value to the new
\* report, appends it, and advances the counter by len(violations)"
add_error_report(c, report) ==
    [c EXCEPT !.errors = Append(@, [report EXCEPT !.id = c.COUNTER]),
              !.COUNTER = @ + Len(report.errors)]

\* add_unknown_exception(record): "appends without consuming a counter slot"
add_unknown_exception(c, exc) ==
    [c EXCEPT !.exceptions = Append(@, exc)]

\* ------------------------------------------------------------- handlers.py
\* exception_handler with the record stored before lazy is looked at
ExceptionHandlerRecordsFirst(c, err, lazy, err_level) ==
    IF ~lazy THEN Raise(err, add_unknown_exception(c, [type |-> err, level |-> err_level]))
    ELSE Ok(add_unknown_exception(c, [type |-> err, level |-> err_level]))

\* exception_handler(err, lazy, err_level, logger)
exception_handler(c, err, lazy, err_level) ==
    IF ~lazy THEN Raise(err, c)
    ELSE Ok(add_unknown_exception(c, [type |-> err, level |-> err_level]))

\* error_handler that stores an exception record beside the report
ErrorHandlerStoresBoth(c, err, err_level, lazy) ==
    IF ~lazy THEN Raise(err, c)
    ELSE Ok(add_unknown_exception(
                add_error_report(c,
                    [name |-> "Critical Error Report",
                     errors |-> <<ErrorRecord(err, err_level, <<err, ": ", "str(err)">>,
                                              <<"message">>, <<>>, "None")>>,
                     total_errors |-> 1,
                     id |-> "uuid4"]),
                [type |-> err, level |-> err_level]))

\* error_handler that raises whatever lazy is
ErrorHandlerRaises(c, err, err_level, lazy) == Raise(err, c)

\* error_handler(err, err_level, message, lazy, logger): a report named
\* 'Critical Error Report' holding one ErrorSchema, whose title is
\* f'{type(err).__name__}: {str(err)}' and whose message is the one given
error_handler(c, err, err_level, lazy) ==
    IF ~lazy THEN Raise(err, c)
    ELSE Ok(add_error_report(c,
                [name |-> "Critical Error Report",
                 errors |-> <<ErrorRecord(err, err_level, <<err, ": ", "str(err)">>,
                                          <<"message">>, <<>>, "None")>>,
                 total_errors |-> 1,
                 id |-> "uuid4"]))

\* str.title() of the strings the runtime names a structural constraint by
StrTitle(text) ==
    [i \in 1..Len(text) |->
        CASE text[i] = "not_nullable" -> "Not_Nullable"
          [] text[i] = "column_in_dataframe" -> "Column_In_Dataframe"
          [] OTHER -> text[i]]

\* parse_schema_error(schema_error, idx_columns, error_level): the arguments
\* of DFErrorSchema are evaluated first (create_row_idx may raise), then
\* pydantic validates them (idx_columns: list[str]).  The level is the name
\* of the check when it has one; the title is check.title when that is a
\* str, and of a check that is a str itself the result of its method
\* title(); the message is str(schema_error).
parse_schema_error(schema_error, idx_columns, error_level) ==
    LET rows == create_row_idx(schema_error.check_output)
        level == IF schema_error.name # "none" THEN schema_error.name ELSE error_level
        title == IF schema_error.check # "str" THEN schema_error.title
                 ELSE StrTitle(schema_error.text)
    IN IF rows.raised # "none" THEN [raised |-> rows.raised, value |-> <<>>]
       ELSE IF ~IsListOfStr(idx_columns) THEN [raised |-> "ValidationError", value |-> <<>>]
       ELSE [raised |-> "none",
             value |-> ErrorRecord(schema_error.reason, level, title, schema_error.str,
                                   rows.value, idx_columns)]

\* the loop over schema_errors without the break at a critical record
RECURSIVE ParseBatchAll(_, _, _, _)
ParseBatchAll(schema_errors, i, idx_columns, acc) ==
    IF i > Len(schema_errors) THEN [raised |-> "none", value |-> acc]
    ELSE LET df_error == parse_schema_error(schema_errors[i], idx_columns, "error")
         IN IF df_error.raised # "none" THEN [raised |-> df_error.raised, value |-> acc]
            ELSE ParseBatchAll(schema_errors, i + 1, idx_columns,
                               Append(acc, df_error.value))

\* pandera_schema_errors_handler, lines 93-102: the loop over schema_errors,
\* left at the first record whose level is critical
RECURSIVE ParseBatch(_, _, _, _)
ParseBatch(schema_errors, i, idx_columns, acc) ==
    IF i > Len(schema_errors) THEN [raised |-> "none", value |-> acc]
    ELSE LET df_error == parse_schema_error(schema_errors[i], idx_columns, "error")
         IN IF df_error.raised # "none" THEN [raised |-> df_error.raised, value |-> acc]
            ELSE IF df_error.value.level = "critical"
                 THEN [raised |-> "none", value |-> Append(acc, df_error.value)]
                 ELSE ParseBatch(schema_errors, i + 1, idx_columns,
                                 Append(acc, df_error.value))

\* ParseSingle with the default level of the elements of a batch
ParseSingleAsBatch(err, idx_columns) ==
    LET df_error == parse_schema_error(err, idx_columns, "error")
    IN IF df_error.raised # "none" THEN [raised |-> df_error.raised, value |-> <<>>]
       ELSE [raised |-> "none", value |-> <<df_error.value>>]

\* pandera_schema_errors_handler, lines 104-108: a single SchemaError is
\* parsed with error_level critical
ParseSingle(err, idx_columns) ==
    LET df_error == parse_schema_error(err, idx_columns, "critical")
    IN IF df_error.raised # "none" THEN [raised |-> df_error.raised, value |-> <<>>]
       ELSE [raised |-> "none", value |-> <<df_error.value>>]

\* pandera_schema_errors_handler, lines 87-91: [] when unique is set,
\* otherwise the (unset) unique itself
HandlerIdxColumns(unique) == IF ~Truthy(unique) THEN unique ELSE "empty"

\* pandera_schema_errors_handler with total_errors counting the violations
\* of the batch instead of the records made of them
SchemaErrorsHandlerCountsBatch(c, err, lazy) ==
    IF ~lazy THEN Raise(err.kind, c)
    ELSE LET idx_columns == HandlerIdxColumns(err.unique)
             errs == IF err.kind = "SchemaErrors" /\ Len(err.schema_errors) > 0
                     THEN ParseBatch(err.schema_errors, 1, idx_columns, <<>>)
                     ELSE ParseSingle(err, idx_columns)
         IN IF errs.raised # "none" THEN Raise(errs.raised, c)
            ELSE Ok(add_error_report(c,
                        [name |-> "schema", errors |-> errs.value,
                         total_errors |-> IF err.kind = "SchemaErrors"
                                          THEN Len(err.schema_errors) ELSE 1,
                         id |-> "uuid4"]))

\* pandera_schema_errors_handler(err, lazy, logger)
pandera_schema_errors_handler(c, err, lazy) ==
    IF ~lazy THEN Raise(err.kind, c)
    ELSE LET idx_columns == HandlerIdxColumns(err.unique)
             errs == IF err.kind = "SchemaErrors" /\ Len(err.schema_errors) > 0
                     THEN ParseBatch(err.schema_errors, 1, idx_columns, <<>>)
                     ELSE ParseSingle(err, idx_columns)
         IN IF errs.raised # "none" THEN Raise(errs.raised, c)
            ELSE Ok(add_error_report(c,
                        [name |-> "schema", errors |-> errs.value,
                         total_errors |-> Len(errs.value), id |-> "uuid4"]))

\* ------------------------------------------------ check expressions (pydantic)
Commands == {"is_null", "is_in"}

\* SimpleCheckExpression(command=..., subject=..., arg_values=...,
\* arg_columns=...); a list that is None or empty is <<>>
SimpleCheckExpressionOf(command, subject, arg_values, arg_columns) ==
    [tag |-> "simple", command |-> command, subject |-> subject,
     arg_values |-> arg_values, arg_columns |-> arg_columns]

\* SimpleCheckExpression(command=...)
SimpleCheckExpression(command) == SimpleCheckExpressionOf(command, <<>>, <<>>, <<>>)

\* CaseCheckExpression with expressions bounded from below only
CaseCheckExpressionMinOnly(check_case, expressions) ==
    IF check_case \notin CheckCases THEN [raised |-> "ValidationError", value |-> "None"]
    ELSE IF Len(expressions) < 2
    THEN [raised |-> "ValidationError", value |-> "None"]
    ELSE [raised |-> "none",
          value |-> [tag |-> "case", check_case |-> check_case,
                     expressions |-> expressions]]

\* CaseCheckExpression(check_case=..., expressions=[...]): check_case must be
\* a CheckCases value and expressions is Field(min_length=2, max_length=2)
CaseCheckExpression(check_case, expressions) ==
    IF check_case \notin CheckCases THEN [raised |-> "ValidationError", value |-> "None"]
    ELSE IF Len(expressions) < 2 \/ Len(expressions) > 2
    THEN [raised |-> "ValidationError", value |-> "None"]
    ELSE [raised |-> "none",
          value |-> [tag |-> "case", check_case |-> check_case,
                     expressions |-> expressions]]

RECURSIVE Depth(_)
Depth(e) ==
    IF e.tag = "simple" THEN 0
    ELSE LET ds == {Depth(e.expressions[i]) : i \in 1..Len(e.expressions)}
         IN 1 + (IF ds = {} THEN 0 ELSE CHOOSE d \in ds : \A x \in ds : x <= d)

\* ------------------------------------------------- compilation of checks
\* rows of the table a compiled check is run on
MaxRows == 2

\* a name the registry does not hold
Unregistered == {"is_odd"}

\* a function of the caller
Callables == {"check_fn"}

\* expression_mapper (dataguard/core/utils/mappers.py is not in src/): the
\* registry, from each predicate name to its implementation
expression_mapper ==
    [c \in Commands |-> IF c = "is_null" THEN "impl_is_null" ELSE "impl_is_in"]

Impls == {expression_mapper[c] : c \in Commands}

\* what can be called: the functions of the caller and of the registry
callable(command) == command \in Callables \cup Impls

\* an exception with its args[0]
Exc(cls, arg) == [raised |-> cls, arg |-> arg]

NoExc == Exc("none", "none")

\* str.replace('_', ' ').capitalize() of a command, or of the __name__ of a
\* function
Capitalized(command) ==
    CASE command = "is_null" -> "Is null"
      [] command = "is_in" -> "Is in"
      [] command = "is_odd" -> "Is odd"
      [] command = "check_fn" -> "Check fn"
      [] command = "impl_is_null" -> "Impl is null"
      [] command = "impl_is_in" -> "Impl is in"

\* str.lower() of a title
Lowered(title) ==
    CASE title = "Is null" -> "is null"
      [] title = "Is in" -> "is in"
      [] title = "Is odd" -> "is odd"
      [] title = "Check fn" -> "check fn"
      [] title = "Impl is null" -> "impl is null"
      [] title = "Impl is in" -> "impl is in"

\* get_check_title: a string is the sequence of its pieces
RECURSIVE get_check_title(_)
get_check_title(e) ==
    IF e.tag = "simple" THEN <<Capitalized(e.command)>>
    ELSE LET t0 == get_check_title(e.expressions[1])
             t1 == get_check_title(e.expressions[2])
         IN CASE e.check_case = "condition" -> <<"When ">> \o t0 \o <<", Then ">> \o t1
              [] e.check_case = "conjunction" -> t0 \o <<" and ">> \o t1
              [] e.check_case = "disjunction" -> t0 \o <<" or ">> \o t1

\* repr() of a list of strings, as an f-string renders it
RECURSIVE ReprItems(_, _)
ReprItems(args, i) ==
    IF i > Len(args) THEN <<>>
    ELSE (IF i > 1 THEN <<", ">> ELSE <<>>) \o <<"'", args[i], "'">> \o ReprItems(args, i + 1)

\* get_args_string(args): the one element between double quotes, or the list
get_args_string(args) ==
    IF Len(args) = 1 THEN <<"\"", args[1], "\"">>
    ELSE <<"[">> \o ReprItems(args, 1) \o <<"]">>

\* SimpleCheckExpression.get_check_message with the subject in the place of
\* the arguments
SimpleMessageSubjectLast(e) ==
    LET head == IF e.subject # <<>>
                THEN <<"Column(s) ", Lowered(Capitalized(e.command)), " ">>
                        \o get_args_string(e.subject)
                ELSE <<"The column under validation ", Lowered(Capitalized(e.command))>>
        tail == IF e.arg_values # <<>> THEN <<" ">> \o get_args_string(e.arg_values)
                ELSE IF e.arg_columns # <<>> THEN <<" ">> \o get_args_string(e.arg_columns)
                ELSE <<>>
    IN head \o tail

\* SimpleCheckExpression.get_check_message: the subject, the lowered title,
\* then the arg_values or else the arg_columns
SimpleMessage(e) ==
    LET head == IF e.subject # <<>>
                THEN <<"Column(s) ">> \o get_args_string(e.subject)
                        \o <<" ", Lowered(Capitalized(e.command))>>
                ELSE <<"The column under validation ", Lowered(Capitalized(e.command))>>
        tail == IF e.arg_values # <<>> THEN <<" ">> \o get_args_string(e.arg_values)
                ELSE IF e.arg_columns # <<>> THEN <<" ">> \o get_args_string(e.arg_columns)
                ELSE <<>>
    IN head \o tail

\* get_check_message with the two children of a case taken in the other order
RECURSIVE GetCheckMessageSwapped(_)
GetCheckMessageSwapped(e) ==
    IF e.tag = "simple" THEN SimpleMessage(e)
    ELSE LET m0 == GetCheckMessageSwapped(e.expressions[2])
             m1 == GetCheckMessageSwapped(e.expressions[1])
         IN CASE e.check_case = "condition" -> <<"When ">> \o m0 \o <<" Then ">> \o m1
              [] e.check_case = "conjunction" -> m0 \o <<" and ">> \o m1
              [] e.check_case = "disjunction" -> m0 \o <<" or ">> \o m1

\* get_check_message: a string is the sequence of its pieces
RECURSIVE get_check_message(_)
get_check_message(e) ==
    IF e.tag = "simple" THEN SimpleMessage(e)
    ELSE LET m0 == get_check_message(e.expressions[1])
             m1 == get_check_message(e.expressions[2])
         IN CASE e.check_case = "condition" -> <<"When ">> \o m0 \o <<" Then ">> \o m1
              [] e.check_case = "conjunction" -> m0 \o <<" and ">> \o m1
              [] e.check_case = "disjunction" -> m0 \o <<" or ">> \o m1

\* SimpleCheckExpression.map_command: self.command = expression_mapper[self.command]
map_command(e) ==
    IF e.command \in DOMAIN expression_mapper
    THEN [raised |-> "none", arg |-> "none",
          e |-> [e EXCEPT !.command = expression_mapper[e.command]]]
    ELSE [raised |-> "KeyError", arg |-> e.command, e |-> e]

\* get_expression (dataguard/core/check/check_cmd.py is not in src/): the
\* expression to evaluate, a call of the predicate for a simple expression and
\* the boolean operator of the connective over the two children for a case
NoExp == [op |-> "none", fn |-> "none", args |-> <<>>]

RECURSIVE get_expression(_)
get_expression(e) ==
    IF e.tag = "simple" THEN [op |-> "call", fn |-> e.command, args |-> <<>>]
    ELSE [op |-> CASE e.check_case = "conjunction" -> "and"
                   [] e.check_case = "disjunction" -> "or"
                   [] e.check_case = "condition" -> "not_or",
          fn |-> "none",
          args |-> <<get_expression(e.expressions[1]), get_expression(e.expressions[2])>>]

\* get_case_check that maps the simple children of the expression only
GetCaseCheckOneLevel(e) ==
    LET m == [i \in 1..Len(e.expressions) |->
                 IF e.expressions[i].tag = "simple"
                 THEN map_command(e.expressions[i])
                 ELSE [raised |-> "none", arg |-> "none", e |-> e.expressions[i]]]
        failed == {i \in 1..Len(e.expressions) : m[i].raised # "none"}
        first == CHOOSE i \in failed : \A j \in failed : i <= j
    IN IF failed = {}
       THEN [raised |-> "none", arg |-> "none",
             e |-> [e EXCEPT !.expressions = [i \in 1..Len(e.expressions) |-> m[i].e]]]
       ELSE [raised |-> m[first].raised, arg |-> m[first].arg,
             e |-> [e EXCEPT !.expressions =
                       [i \in 1..Len(e.expressions) |->
                           IF i < first THEN m[i].e ELSE e.expressions[i]]]]

\* get_case_check: each expression in turn, map_command() of one that has the
\* method and get_case_check of the others; an exception ends the loop and
\* leaves the expressions before it mapped
RECURSIVE get_case_check(_), MapExpressions(_, _)
MapExpressions(e, i) ==
    IF i > Len(e.expressions) THEN [raised |-> "none", arg |-> "none", e |-> e]
    ELSE LET x == e.expressions[i]
             r == IF x.tag = "simple" THEN map_command(x) ELSE get_case_check(x)
             e1 == [e EXCEPT !.expressions[i] = r.e]
         IN IF r.raised # "none" THEN [r EXCEPT !.e = e1]
            ELSE MapExpressions(e1, i + 1)

get_case_check(e) == MapExpressions(e, 1)

\* a CheckSchema; fn is partial(get_check_fn, exp=exp) or partial(command, ...)
CheckSchema(name, fn, exp, error_level, error_msg) ==
    [name |-> name, fn |-> [fn |-> fn, exp |-> exp],
     error_level |-> error_level, error_msg |-> error_msg]

NoCheck == CheckSchema(<<>>, "none", NoExp, "none", <<>>)

\* CheckSchema.build(): the pa.Check of a CheckSchema carries the error
\* level as its name, the name as its title and error_msg as its error
CheckSchemaBuild(check_schema) ==
    [check |-> "Check", name |-> check_schema.error_level, title |-> check_schema.name,
     error |-> check_schema.error_msg, text |-> <<"None">>]

\* the CheckSchema of a check declared with a name and a message
Declared(error_level) ==
    CheckSchema(<<"My check">>, "get_check_fn", NoExp, error_level, <<"my message">>)

\* `not name`, `not error_msg`: None and the empty string
Absent(text) == text \in {"None", ""}

\* CheckSchema.get_schema(check_command, name, error_level, error_msg): the
\* exception raised, the CheckSchema returned and check_command as it is left
get_schema(check_command, name, error_level, error_msg) ==
    LET name1 == IF Absent(name) THEN get_check_title(check_command) ELSE <<name>>
        msg1 == IF Absent(error_msg) THEN get_check_message(check_command)
                ELSE <<error_msg>>
        Built(fn, exp, e) ==
            IF error_level \in ErrorLevel
            THEN [raised |-> "none", arg |-> "none", check_command |-> e,
                  value |-> CheckSchema(name1, fn, exp, error_level, msg1)]
            ELSE [raised |-> "ValidationError", arg |-> "error_level",
                  check_command |-> e, value |-> NoCheck]
        Failed(r) == [raised |-> r.raised, arg |-> r.arg, check_command |-> r.e,
                      value |-> NoCheck]
    IN IF check_command.tag = "case"
       THEN LET r == get_case_check(check_command)
            IN IF r.raised # "none" THEN Failed(r)
               ELSE Built("get_check_fn", get_expression(r.e), r.e)
       ELSE IF check_command.command \in DOMAIN expression_mapper
       THEN LET r == map_command(check_command)
            IN Built("get_check_fn", get_expression(r.e), r.e)
       ELSE IF ~callable(check_command.command)
       THEN Failed([raised |-> "TypeError", arg |-> "the first argument must be callable",
                    e |-> check_command])
       ELSE Built(check_command.command, NoExp, check_command)

\* parse_checks that leaves the error_level of the entry aside
ParseChecksDefaultLevel(entry) ==
    get_schema(entry.check, entry.name, "error", entry.error_msg)

\* parse_checks for one entry: name, error_level and error_msg are popped
\* with the defaults None, ErrorLevel.ERROR and None
parse_checks(entry) ==
    get_schema(entry.check, entry.name,
               IF entry.error_level = "missing" THEN "error" ELSE entry.error_level,
               entry.error_msg)

\* a table: for each function the value it gives on each row
Tables == [Impls -> [1..MaxRows -> BOOLEAN]]

\* get_check_fn(data, exp) (dataguard/core/check/check_cmd.py is not in
\* src/) on row i: the operator of exp applied to what its arguments give
RECURSIVE EvalRow(_, _, _)
EvalRow(exp, table, i) ==
    CASE exp.op = "call" -> table[exp.fn][i]
      [] exp.op = "and" -> EvalRow(exp.args[1], table, i) /\ EvalRow(exp.args[2], table, i)
      [] exp.op = "or" -> EvalRow(exp.args[1], table, i) \/ EvalRow(exp.args[2], table, i)
      [] exp.op = "not_or" -> (~EvalRow(exp.args[1], table, i)) \/ EvalRow(exp.args[2], table, i)

\* every predicate exp calls is a function
RECURSIVE Resolved(_)
Resolved(exp) ==
    IF exp.op = "call" THEN callable(exp.fn)
    ELSE \A i \in 1..Len(exp.args) : Resolved(exp.args[i])

\* CheckSchema.fn(data) of fn = partial(get_check_fn, exp=exp): the output of
\* the check, one boolean per row
RunFn(fn, table) ==
    IF ~Resolved(fn.exp) THEN [raised |-> "Exception", mask |-> <<>>]
    ELSE [raised |-> "none", mask |-> [i \in 1..MaxRows |-> EvalRow(fn.exp, table, i)]]

\* ---------------------------------------------------------- configurations
\* A configuration mapping, by the shape of the keys get_df_schema reads.
Config(name, columns, ids, checks) ==
    [name |-> name, columns |-> columns, ids |-> ids, checks |-> checks]

\* `columns` with one column that lacks one of the keys parse_columns reads
ColumnWithout == {"no_id", "no_data_type", "no_nullable", "no_unique", "no_required"}

\* the well-formed configurations (ids absent, empty or given; checks absent
\* or given), the empty mapping, and one malformed key at a time: a missing
\* key, a value of the wrong type (name, ids and data_type an int, columns
\* and checks a string), a case check that is not well formed
Configs ==
    {Config("str", "list", ids, checks)
        : ids \in {"missing", "empty", "col1"}, checks \in {"list", "missing"}}
    \cup {Config("missing", "missing", "missing", "missing"),
          Config("missing", "list", "empty", "list"),
          Config("str", "missing", "empty", "list"),
          Config("str", "list", "int", "list"),
          Config("str", "list", "empty", "str"),
          Config("str", "list", "empty", "raises"),
          Config("int", "list", "empty", "list"),
          Config("int", "list", "int", "str")}
    \cup {Config("str", columns, "empty", "list")
             : columns \in ColumnWithout \cup {"str", "bad_data_type"}}
    \cup {Config("str", "list", "empty", checks)
             : checks \in {"three_expressions", "unknown_case"}}

\* DFSchema.ids / DataFrameSchema.unique of a parsed configuration
ConfigUnique(config) ==
    CASE config.ids = "missing" -> "None"
      [] config.ids = "empty" -> "empty"
      [] OTHER -> "ids"

\* the case check of a configuration whose checks are not well formed
MalformedCase(checks) ==
    IF checks = "three_expressions"
    THEN CaseCheckExpression("conjunction", [i \in 1..3 |-> SimpleCheckExpression("is_null")])
    ELSE CaseCheckExpression("negation", [i \in 1..2 |-> SimpleCheckExpression("is_null")])

\* ParseConfig with the keys of a column looked up by pydantic
ParseConfigKeysByPydantic(config) ==
    CASE config.name = "missing" -> [raised |-> "KeyError", schema |-> "unset"]
      [] config.columns = "missing" -> [raised |-> "KeyError", schema |-> "unset"]
      [] config.columns \in ColumnWithout -> [raised |-> "ValidationError", schema |-> "unset"]
      [] config.columns = "str" -> [raised |-> "TypeError", schema |-> "unset"]
      [] config.columns = "bad_data_type" -> [raised |-> "ValidationError", schema |-> "unset"]
      [] config.ids = "int" -> [raised |-> "TypeError", schema |-> "unset"]
      [] config.checks = "str" -> [raised |-> "AttributeError", schema |-> "unset"]
      [] config.checks \in {"three_expressions", "unknown_case"} ->
            [raised |-> MalformedCase(config.checks).raised, schema |-> "unset"]
      [] config.checks = "raises" -> [raised |-> "ValueError", schema |-> "unset"]
      [] config.name = "int" -> [raised |-> "ValidationError", schema |-> "unset"]
      [] OTHER -> [raised |-> "none", schema |-> ConfigUnique(config)]

\* get_df_schema, lines 21-31: the arguments of DFSchema(...) are evaluated
\* in order (name, columns, ids, metadata, checks), then pydantic validates.
\* parse_columns reads the five keys of each column by subscript (KeyError),
\* and of a string it subscripts the characters (TypeError); ColSchema
\* rejects a data_type that is no ValidationType; parse_checks of an entry
\* that is no CaseCheckExpression tries SimpleCheckExpression, which a case
\* check fails for having no command
ParseConfig(config) ==
    CASE config.name = "missing" -> [raised |-> "KeyError", schema |-> "unset"]
      [] config.columns = "missing" -> [raised |-> "KeyError", schema |-> "unset"]
      [] config.columns \in ColumnWithout -> [raised |-> "KeyError", schema |-> "unset"]
      [] config.columns = "str" -> [raised |-> "TypeError", schema |-> "unset"]
      [] config.columns = "bad_data_type" -> [raised |-> "ValidationError", schema |-> "unset"]
      [] config.ids = "int" -> [raised |-> "TypeError", schema |-> "unset"]
      [] config.checks = "str" -> [raised |-> "AttributeError", schema |-> "unset"]
      [] config.checks \in {"three_expressions", "unknown_case"} ->
            [raised |-> MalformedCase(config.checks).raised, schema |-> "unset"]
      [] config.checks = "raises" -> [raised |-> "ValueError", schema |-> "unset"]
      [] config.name = "int" -> [raised |-> "ValidationError", schema |-> "unset"]
      [] OTHER -> [raised |-> "none", schema |-> ConfigUnique(config)]

\* peh_validation_library get_df_schema: KeyError, TypeError, ValidationError
\* and IndexError are re-raised as RuntimeError
peh_get_df_schema(config) ==
    LET r == ParseConfig(config)
    IN IF r.raised \in {"KeyError", "TypeError", "ValidationError", "IndexError"}
       THEN [r EXCEPT !.raised = "RuntimeError"]
       ELSE r

\* dataguard get_df_schema (dataguard/config/config_reader.py is not in
\* src/): parse(config) -> TableSchema | fails with the typed error
get_df_schema(config) == ParseConfig(config)

\* ------------------------------------ the schema of a configuration mapping
\* A configuration as the mapping it is: `columns` a list of column mappings
\* (the five keys, no `checks`), `checks` a list of check entries.  A key an
\* entry does not hold is "None" (name, error_msg) or "missing" (error_level).
ColumnIds == {"col1", "col2"}

ColumnMappings ==
    [id : ColumnIds, data_type : {"varchar", "integer"}, nullable : {FALSE},
     unique : {FALSE}, required : {TRUE}]

\* ColSchema(id=..., data_type=..., nullable=..., unique=..., required=...,
\* checks=None)
ColSchema(column) ==
    [id |-> column.id, data_type |-> column.data_type, nullable |-> column.nullable,
     unique |-> column.unique, required |-> column.required, checks |-> "None"]

\* parse_columns(columns): one ColSchema per column mapping, in order
parse_columns(columns) == [i \in 1..Len(columns) |-> ColSchema(columns[i])]

\* the three check.pop(...) of parse_checks: the entry without the keys
Popped(entry) ==
    [entry EXCEPT !.name = "None", !.error_level = "missing", !.error_msg = "None"]

\* parse_checks(checks) from entry i on: each entry is popped of name,
\* error_level and error_msg, validated into an expression and compiled; an
\* exception ends the loop and leaves the entries up to it popped
RECURSIVE ParseEntries(_, _, _)
ParseEntries(checks, i, acc) ==
    IF i > Len(checks) THEN [raised |-> "none", value |-> acc, checks |-> checks]
    ELSE LET r == parse_checks(checks[i] @@
                               [check |-> SimpleCheckExpression(checks[i].command)])
             checks1 == [checks EXCEPT ![i] = Popped(@)]
         IN IF r.raised # "none"
            THEN [raised |-> r.raised, value |-> acc, checks |-> checks1]
            ELSE ParseEntries(checks1, i + 1, Append(acc, r.value))

\* DFSchema(name=..., columns=..., ids=..., metadata=..., checks=...): the
\* model validates the type of each field and nothing across the columns
DFSchema(name, columns, ids, checks) ==
    [name |-> name, columns |-> columns, ids |-> ids, checks |-> checks]

NoDFSchema == DFSchema("none", <<>>, <<>>, <<>>)

\* get_df_schema(config_input) of a mapping that holds every key: the
\* exception raised, the DFSchema returned, config_input as it is left
GetDfSchemaOf(config_input) ==
    LET cols == parse_columns(config_input.columns)
        chks == ParseEntries(config_input.checks, 1, <<>>)
        left == [config_input EXCEPT !.checks = chks.checks]
    IN IF chks.raised \in {"KeyError", "TypeError", "ValidationError", "IndexError"}
       THEN [raised |-> "RuntimeError", value |-> NoDFSchema, config_input |-> left]
       ELSE IF chks.raised # "none"
       THEN [raised |-> chks.raised, value |-> NoDFSchema, config_input |-> left]
       ELSE [raised |-> "none", config_input |-> left,
             value |-> DFSchema(config_input.name, cols, config_input.ids, chks.value)]

\* ColSchema.build(): the pa.Column of a ColSchema
ColSchemaBuild(col) ==
    [name |-> col.id, dtype |-> col.data_type, nullable |-> col.nullable,
     unique |-> col.unique, required |-> col.required]

\* DFSchema.build(): columns is the dict {col.id: col.build() for col in
\* self.columns}, in which a later column of an id takes the place of an
\* earlier one; unique is the ids
DFSchemaBuild(schema) ==
    LET ids == {schema.columns[i].id : i \in 1..Len(schema.columns)}
        LastOf(id) == CHOOSE i \in 1..Len(schema.columns) :
                         /\ schema.columns[i].id = id
                         /\ \A j \in i + 1..Len(schema.columns) : schema.columns[j].id # id
    IN [name |-> schema.name,
        columns |-> [id \in ids |-> ColSchemaBuild(schema.columns[LastOf(id)])],
        unique |-> schema.ids,
        checks |-> [i \in 1..Len(schema.checks) |-> CheckSchemaBuild(schema.checks[i])]]

NoBuilt == [name |-> "none", columns |-> <<>>, unique |-> <<>>, checks |-> <<>>]

\* a Validator: "no_validator" (no object), "unset" (an object without
\* df_schema) or the `unique` of its schema
HasSchema(s) == s \in {"None", "empty", "ids"}

\* ------------------------------------------------- dataguard.Validator
\* config_from_mapping with every failure handed to exception_handler
ConfigFromMappingAsException(c, config, collect_exceptions) ==
    LET r == get_df_schema(config)
        h == exception_handler(c, r.raised, collect_exceptions, "critical")
    IN IF r.raised = "none" THEN [raised |-> "none", c |-> c, validator |-> r.schema]
       ELSE IF h.raised # "none" THEN [raised |-> h.raised, c |-> h.c, validator |-> "no_validator"]
       ELSE [raised |-> "none", c |-> h.c, validator |-> "unset"]

\* Validator.config_from_mapping(config, collect_exceptions)
config_from_mapping(c, config, collect_exceptions) ==
    LET r == get_df_schema(config)
        h == IF r.raised \in {"KeyError", "AttributeError", "TypeError", "ValidationError"}
             THEN error_handler(c, r.raised, "critical", collect_exceptions)
             ELSE exception_handler(c, r.raised, collect_exceptions, "critical")
    IN IF r.raised = "none" THEN [raised |-> "none", c |-> c, validator |-> r.schema]
       ELSE IF h.raised # "none" THEN [raised |-> h.raised, c |-> h.c, validator |-> "no_validator"]
       ELSE [raised |-> "none", c |-> h.c, validator |-> "unset"]

\* convert_mapping_to_dataframe(dataframe, collect_exceptions): read is the
\* outcome of read_dataframe
convert_mapping_to_dataframe(c, read, collect_exceptions) ==
    LET h == IF read = "PolarsError"
             THEN error_handler(c, "ShapeError", "critical", collect_exceptions)
             ELSE exception_handler(c, "TypeError", collect_exceptions, "critical")
    IN IF read = "ok" THEN [raised |-> "none", c |-> c, frame |-> TRUE]
       ELSE [raised |-> h.raised, c |-> h.c, frame |-> FALSE]

Result(raised, c, calls, path) ==
    [raised |-> raised, c |-> c, calls |-> calls, path |-> path]

OnHandler(h, calls, path) == Result(h.raised, h.c, calls, path)

\* the eager run with the aborted lazy attempt recorded as well
EagerRetryAfterRecording(c, inp, collect_exceptions) ==
    LET c1 == IF collect_exceptions
              THEN add_unknown_exception(c, [type |-> "NotImplementedError",
                                             level |-> "critical"])
              ELSE c
    IN CASE inp.run2.kind = "valid" -> Result("none", c1, 2, "eager_valid")
         [] inp.run2.kind = "PolarsError" ->
               OnHandler(error_handler(c1, "ComputeError", "critical", collect_exceptions),
                         2, "eager_polars")
         [] inp.run2.kind = "SchemaError" ->
               OnHandler(pandera_schema_errors_handler(c1, inp.run2, collect_exceptions),
                         2, "eager_violation")
         [] OTHER -> Result(inp.run2.kind, c1, 2, "eager_exception")

\* Validator.validate, lines 229-250: the eager run after NotImplementedError
EagerRetry(c, inp, collect_exceptions) ==
    CASE inp.run2.kind = "valid" -> Result("none", c, 2, "eager_valid")
      [] inp.run2.kind = "PolarsError" ->
            OnHandler(error_handler(c, "ComputeError", "critical", collect_exceptions),
                      2, "eager_polars")
      [] inp.run2.kind = "SchemaError" ->
            OnHandler(pandera_schema_errors_handler(c, inp.run2, collect_exceptions),
                      2, "eager_violation")
      [] OTHER -> Result(inp.run2.kind, c, 2, "eager_exception")

\* cast and run with the run going on after a recorded cast failure
CastAndRunGoesOn(c, inp, collect_exceptions) ==
    LET h == IF inp.cast = "PolarsError"
             THEN error_handler(c, "InvalidOperationError", "critical", collect_exceptions)
             ELSE Ok(c)
    IN CASE h.raised # "none" -> OnHandler(h, 0, "cast_failed")
         [] inp.cast = "Exception" -> Result("TypeError", c, 0, "cast_exception")
         [] inp.run1.kind = "valid" ->
               Result("none", h.c, 1, IF inp.cast = "PolarsError" THEN "cast_failed" ELSE "valid")
         [] inp.run1.kind = "PolarsError" ->
               OnHandler(error_handler(h.c, "ComputeError", "critical", collect_exceptions),
                         1, IF inp.cast = "PolarsError" THEN "cast_failed" ELSE "polars")
         [] inp.run1.kind \in {"SchemaErrors", "SchemaError"} ->
               OnHandler(pandera_schema_errors_handler(h.c, inp.run1, collect_exceptions),
                         1, IF inp.cast = "PolarsError" THEN "cast_failed" ELSE "violation")
         [] inp.run1.kind = "NotImplementedError" ->
               EagerRetry(h.c, inp, collect_exceptions)
         [] OTHER -> Result(inp.run1.kind, h.c, 1, "exception")

\* cast and run with a report of no records stored for a valid frame
CastAndRunReportsValid(c, inp, collect_exceptions) ==
    CASE inp.cast = "PolarsError" ->
            OnHandler(error_handler(c, "InvalidOperationError", "critical",
                                    collect_exceptions), 0, "cast_failed")
      [] inp.cast = "Exception" -> Result("TypeError", c, 0, "cast_exception")
      [] inp.run1.kind = "valid" ->
            Result("none",
                   IF collect_exceptions
                   THEN add_error_report(c, [name |-> "empty", errors |-> <<>>,
                                             total_errors |-> 0, id |-> 0])
                   ELSE c,
                   1, "valid")
      [] inp.run1.kind = "PolarsError" ->
            OnHandler(error_handler(c, "ComputeError", "critical", collect_exceptions),
                      1, "polars")
      [] inp.run1.kind \in {"SchemaErrors", "SchemaError"} ->
            OnHandler(pandera_schema_errors_handler(c, inp.run1, collect_exceptions),
                      1, "violation")
      [] inp.run1.kind = "NotImplementedError" -> EagerRetry(c, inp, collect_exceptions)
      [] OTHER -> Result(inp.run1.kind, c, 1, "exception")

\* Validator.validate, lines 199-250: cast, the lazy run and its handlers
CastAndRun(c, inp, collect_exceptions) ==
    CASE inp.cast = "PolarsError" ->
            OnHandler(error_handler(c, "InvalidOperationError", "critical",
                                    collect_exceptions), 0, "cast_failed")
      [] inp.cast = "Exception" -> Result("TypeError", c, 0, "cast_exception")
      [] inp.run1.kind = "valid" -> Result("none", c, 1, "valid")
      [] inp.run1.kind = "PolarsError" ->
            OnHandler(error_handler(c, "ComputeError", "critical", collect_exceptions),
                      1, "polars")
      [] inp.run1.kind \in {"SchemaErrors", "SchemaError"} ->
            OnHandler(pandera_schema_errors_handler(c, inp.run1, collect_exceptions),
                      1, "violation")
      [] inp.run1.kind = "NotImplementedError" -> EagerRetry(c, inp, collect_exceptions)
      [] OTHER -> Result(inp.run1.kind, c, 1, "exception")

\* the body of validate without the guard on df_schema
ValidateBodyUnguarded(c, schema, inp, collect_exceptions) ==
    LET conv == IF inp.data = "mapping"
                THEN convert_mapping_to_dataframe(c, inp.read, collect_exceptions)
                ELSE [raised |-> "none", c |-> c, frame |-> inp.data = "frame"]
    IN CASE conv.raised # "none" -> Result(conv.raised, conv.c, 0, "read_failed")
         [] ~HasSchema(schema) -> Result("AttributeError", conv.c, 0, "no_schema")
         [] ~conv.frame ->
               Result("none", conv.c, 0,
                      IF inp.data = "mapping" THEN "read_failed" ELSE "no_frame")
         [] inp.build = "Exception" -> Result("SchemaInitError", conv.c, 0, "build_failed")
         [] OTHER -> CastAndRun(conv.c, inp, collect_exceptions)

\* Validator.validate, lines 180-250: the body of the outer try
ValidateBody(c, schema, inp, collect_exceptions) ==
    LET conv == IF inp.data = "mapping"
                THEN convert_mapping_to_dataframe(c, inp.read, collect_exceptions)
                ELSE [raised |-> "none", c |-> c, frame |-> inp.data = "frame"]
    IN CASE ~HasSchema(schema) -> Result("none", c, 0, "no_schema")
         [] conv.raised # "none" -> Result(conv.raised, conv.c, 0, "read_failed")
         [] ~conv.frame ->
               Result("none", conv.c, 0,
                      IF inp.data = "mapping" THEN "read_failed" ELSE "no_frame")
         [] inp.build = "Exception" -> Result("SchemaInitError", conv.c, 0, "build_failed")
         [] OTHER -> CastAndRun(conv.c, inp, collect_exceptions)

\* Validator.validate(dataframe, lazy_validation, collect_exceptions): what
\* the body raises reaches exception_handler (lines 252-258)
validate(c, schema, inp, collect_exceptions) ==
    LET b == ValidateBody(c, schema, inp, collect_exceptions)
    IN IF b.raised = "none" THEN b
       ELSE OnHandler(exception_handler(b.c, b.raised, collect_exceptions, "critical"),
                      b.calls, b.path)

\* ---------------------------------------- peh_validation_library.Validator
\* the except-blocks of the peh Validator: re-raise, or store an
\* ExceptionSchema of level critical through add_errors
PehRecord(c, err, collect_exceptions) ==
    IF ~collect_exceptions THEN Raise(err, c)
    ELSE add_errors(c, [kind |-> "ExceptionSchema", type |-> err, level |-> "critical",
                        error_traceback |-> "format_exc"])

\* Validator.config_from_mapping(config, collect_exceptions)
peh_config_from_mapping(c, config, collect_exceptions) ==
    LET r == peh_get_df_schema(config)
        h == PehRecord(c, r.raised, collect_exceptions)
    IN IF r.raised = "none" THEN [raised |-> "none", c |-> c, validator |-> r.schema]
       ELSE IF h.raised # "none" THEN [raised |-> h.raised, c |-> h.c, validator |-> "no_validator"]
       ELSE [raised |-> "none", c |-> h.c, validator |-> "unset"]

\* Validator.convert_mapping_to_dataframe: any failure of read_dataframe
peh_convert_mapping_to_dataframe(c, read, collect_exceptions) ==
    LET h == PehRecord(c, IF read = "PolarsError" THEN "ShapeError" ELSE "TypeError",
                       collect_exceptions)
    IN IF read = "ok" THEN [raised |-> "none", c |-> c, frame |-> TRUE]
       ELSE [raised |-> h.raised, c |-> h.c, frame |-> FALSE]

\* Validator.validate, lines 265-310: the lazy run; what the eager run
\* raises other than SchemaError is not caught
PehRun(c, inp, collect_exceptions) ==
    CASE inp.run1.kind = "valid" -> Result("none", c, 1, "valid")
      [] inp.run1.kind \in {"SchemaErrors", "SchemaError"} ->
            IF ~collect_exceptions THEN Result(inp.run1.kind, c, 1, "violation")
            ELSE OnHandler(add_errors(c, inp.run1), 1, "violation")
      [] inp.run1.kind = "NotImplementedError" ->
            (CASE inp.run2.kind = "valid" -> Result("none", c, 2, "eager_valid")
               [] inp.run2.kind = "SchemaError" ->
                     IF ~collect_exceptions
                     THEN Result(inp.run2.kind, c, 2, "eager_violation")
                     ELSE OnHandler(add_errors(c, inp.run2), 2, "eager_violation")
               [] inp.run2.kind = "PolarsError" ->
                     Result("ComputeError", c, 2, "eager_polars")
               [] OTHER -> Result(inp.run2.kind, c, 2, "eager_exception"))
      [] inp.run1.kind = "PolarsError" ->
            OnHandler(PehRecord(c, "ComputeError", collect_exceptions), 1, "polars")
      [] OTHER -> OnHandler(PehRecord(c, inp.run1.kind, collect_exceptions), 1, "exception")

\* Validator.validate(dataframe, lazy_validation, collect_exceptions)
peh_validate(c, schema, inp, collect_exceptions) ==
    LET conv == IF inp.data = "mapping"
                THEN peh_convert_mapping_to_dataframe(c, inp.read, collect_exceptions)
                ELSE [raised |-> "none", c |-> c, frame |-> inp.data = "frame"]
    IN CASE conv.raised # "none" -> Result(conv.raised, conv.c, 0, "read_failed")
         [] ~HasSchema(schema) ->
               OnHandler(PehRecord(conv.c, "AttributeError", collect_exceptions),
                         0, "no_schema")
         [] inp.build = "Exception" ->
               OnHandler(PehRecord(conv.c, "SchemaInitError", collect_exceptions),
                         0, "build_failed")
         [] ~conv.frame ->
               OnHandler(PehRecord(conv.c, "AttributeError", collect_exceptions), 0,
                         IF inp.data = "mapping" THEN "read_failed" ELSE "no_frame")
         [] inp.cast = "PolarsError" ->
               OnHandler(PehRecord(conv.c, "InvalidOperationError", collect_exceptions),
                         0, "cast_failed")
         [] inp.cast = "Exception" ->
               OnHandler(PehRecord(conv.c, "TypeError", collect_exceptions),
                         0, "cast_exception")
         [] OTHER -> PehRun(conv.c, inp, collect_exceptions)

\* --------------------------------------------------------- runtime outcomes
NoOutput == [none |-> TRUE, mask |-> <<>>]

FailOutput == [none |-> FALSE, mask |-> <<"true", "false", "null", "false">>]

\* a check that is a str has none of these attributes
BareString(text) ==
    [check |-> "str", name |-> "none", title |-> <<"none">>, error |-> <<"none">>,
     text |-> <<text>>]

\* a SchemaError of the validation runtime: the check that failed, the
\* reason code, the check output and str(schema_error), the text the
\* runtime composed for the failure (it names the schema and the check)
SchemaErrorCase(chk, reason, check_output) ==
    [check |-> chk.check, name |-> chk.name, title |-> chk.title, error |-> chk.error,
     text |-> chk.text, reason |-> reason, check_output |-> check_output,
     str |-> <<"failed validator: ">> \o
             (IF chk.check = "str" THEN chk.text
              ELSE <<"<Check ", chk.name, ": ">> \o chk.error \o <<">">>)]

\* the SchemaError objects the validation runtime raises: a structural
\* constraint (check is a string) with or without a check_output, and a
\* Check built by CheckSchema.build, whose name is its error level
SchemaErrorCases ==
    { SchemaErrorCase(BareString("not_nullable"), "SERIES_CONTAINS_NULLS", FailOutput),
      SchemaErrorCase(BareString("column_in_dataframe"), "COLUMN_NOT_IN_DATAFRAME",
                      NoOutput),
      SchemaErrorCase(CheckSchemaBuild(Declared("warning")), "DATAFRAME_CHECK", FailOutput),
      SchemaErrorCase(CheckSchemaBuild(Declared("critical")), "DATAFRAME_CHECK", FailOutput) }

SeqsUpTo(S, n) == UNION {[1..k -> S] : k \in 1..n}

\* pa.errors.SchemaErrors of a DataFrameSchema whose unique is `unique`
SchemaErrorsOf(unique) ==
    { [kind |-> "SchemaErrors", unique |-> unique, schema_errors |-> b]
        : b \in SeqsUpTo(SchemaErrorCases, MaxBatch) }

\* pa.errors.SchemaError: its schema is the DataFrameSchema or a Column,
\* whose unique is a bool
SchemaErrorOf(unique) ==
    { [kind |-> "SchemaError", unique |-> u, check |-> e.check, name |-> e.name,
       title |-> e.title, error |-> e.error, text |-> e.text, str |-> e.str,
       reason |-> e.reason, check_output |-> e.check_output]
        : u \in {unique, "True", "False"}, e \in SchemaErrorCases }

Plain(kind) == [kind |-> kind]

NoErr == Plain("none")

Input(data, read, build, cast, run1, run2) ==
    [data |-> data, read |-> read, build |-> build, cast |-> cast,
     run1 |-> run1, run2 |-> run2]

\* what a call of validate() can meet: the data given, and the outcome of
\* read_dataframe, DFSchema.build, DataFrame.cast, the run with
\* lazy=lazy_validation and the eager run
ValidateInputs(unique) ==
    {Input("other", "ok", "ok", "ok", Plain("valid"), Plain("valid"))}
    \cup {Input("mapping", r, "ok", "ok", Plain("valid"), Plain("valid"))
            : r \in {"PolarsError", "Exception"}}
    \cup {Input(d, "ok", "Exception", "ok", Plain("valid"), Plain("valid"))
            : d \in {"mapping", "frame"}}
    \cup {Input("frame", "ok", "ok", k, Plain("valid"), Plain("valid"))
            : k \in {"PolarsError", "Exception"}}
    \cup {Input("frame", "ok", "ok", "ok", r1, Plain("valid"))
            : r1 \in {Plain("valid"), Plain("PolarsError"), Plain("RuntimeError")}
                     \cup SchemaErrorsOf(unique) \cup SchemaErrorOf(unique)}
    \cup {Input("frame", "ok", "ok", "ok", Plain("NotImplementedError"), r2)
            : r2 \in {Plain("valid"), Plain("PolarsError"), Plain("RuntimeError"),
                      Plain("NotImplementedError")} \cup SchemaErrorOf(unique)}

RunUnique(schema) == IF HasSchema(schema) THEN schema ELSE "empty"

\* the outcome of the runtime that a collecting call of validate() handled
HandledErr(inp, r, collect) ==
    CASE collect /\ r.path = "violation" -> inp.run1
      [] collect /\ r.path \in {"eager_valid", "eager_violation", "eager_polars",
                                "eager_exception"} -> inp.run2
      [] OTHER -> NoErr

\* how a call of config_from_mapping went, by what get_df_schema did
ConfigPath(g) == IF g.raised = "none" THEN "built" ELSE "config_error"

\* ------------------------------------------------------------------- state
\* errors, exceptions, COUNTER: the one ErrorCollector of the process.
\* df_schema: the Validator object the caller holds of each package.
\* last: the last call, its inputs, its outcome and the state it started in
\* (of clear_errors, which keeps nothing of that state: the state it left).
\* expr: the last check expression constructed.
\* objects: the ErrorCollector instances constructed so far, by identity
\* (position), where the identity of the instance matters (SpecShared); the
\* other specifications hold the state of the one instance in errors,
\* exceptions and COUNTER.
\* memo: what functools.cache holds for the call ErrorCollector(): the
\* identity of an instance, or 0 for nothing.
\* check: the last check compiled: the entry and the expression it was
\* compiled from (src), the exception or the CheckSchema that came of it, the
\* expression as the compilation left it (check_command), and the table the
\* check was last run on with its output.
NoEntry == [name |-> "None", error_level |-> "missing", error_msg |-> "None"]

NoOut == [raised |-> "none", mask |-> <<>>]

Compiled(op, entry, src, r) ==
    [op |-> op, entry |-> entry, src |-> src, raised |-> r.raised, arg |-> r.arg,
     value |-> r.value, check_command |-> r.check_command,
     table |-> <<>>, out |-> NoOut]

\* the configuration mapping of the empty schema
EmptyConfig == [name |-> "empty", columns |-> <<>>, ids |-> <<>>, checks |-> <<>>]

\* parsed: the configuration object last given to get_df_schema as the
\* caller wrote it (given) and as it now is (config), the number of calls
\* made on it, what the last call raised or returned (df_schema), what each
\* call so far returned (results), and what DFSchema.build() last made
Parsed(op, given, config, n, r, results, built) ==
    [op |-> op, given |-> given, config |-> config, n |-> n, raised |-> r.raised,
     df_schema |-> r.value, results |-> results, built |-> built]

Pre == [errors |-> errors, exceptions |-> exceptions, COUNTER |-> COUNTER,
        df_schema |-> df_schema]

Call(op, collect, r, err) ==
    [op |-> op, collect |-> collect, raised |-> r.raised, path |-> r.path,
     calls |-> r.calls, err |-> err, pre |-> Pre]

Init ==
    /\ errors = <<>>
    /\ exceptions = <<>>
    /\ COUNTER = 0
    /\ df_schema = [dataguard |-> "no_validator", peh |-> "no_validator"]
    /\ last = [op |-> "init", collect |-> TRUE, raised |-> "none", path |-> "none",
               calls |-> 0, err |-> NoErr,
               pre |-> [errors |-> <<>>, exceptions |-> <<>>, COUNTER |-> 0,
                        df_schema |-> [dataguard |-> "no_validator",
                                       peh |-> "no_validator"]]]
    /\ expr = [raised |-> "none", value |-> SimpleCheckExpression("is_null"),
               check_case |-> "none", n |-> 0]
    /\ objects = <<EmptyCollector>>
    /\ memo = 1
    /\ check = Compiled("init", NoEntry, SimpleCheckExpression("is_null"),
                        [raised |-> "none", arg |-> "none", value |-> NoCheck,
                         check_command |-> SimpleCheckExpression("is_null")])
    /\ parsed = Parsed("init", EmptyConfig, EmptyConfig, 0,
                       [raised |-> "none", value |-> NoDFSchema], <<>>, NoBuilt)

Room == Len(errors) + Len(exceptions) < MaxEntries

RoomForReports == Len(errors) + Len(exceptions) < MaxReports

SetCollector(c) ==
    /\ errors' = c.errors
    /\ exceptions' = c.exceptions
    /\ COUNTER' = c.COUNTER

\* Validator.config_from_mapping(config, collect_exceptions) of dataguard
ConfigFromMapping ==
    /\ Room
    /\ \E config \in Configs, collect \in BOOLEAN :
          LET r == config_from_mapping(Collector, config, collect)
              g == get_df_schema(config)
          IN /\ SetCollector(r.c)
             /\ df_schema' = IF r.raised = "none"
                             THEN [df_schema EXCEPT !.dataguard = r.validator]
                             ELSE df_schema
             /\ last' = Call("config_from_mapping", collect,
                             Result(r.raised, r.c, 0, ConfigPath(g)),
                             [kind |-> g.raised, config |-> config])
    /\ UNCHANGED <<expr, objects, memo, check, parsed>>

\* validator.validate(dataframe, lazy_validation, collect_exceptions) of dataguard
Validate ==
    /\ Room
    /\ df_schema.dataguard # "no_validator"
    /\ \E inp \in ValidateInputs(RunUnique(df_schema.dataguard)), collect \in BOOLEAN :
          LET r == validate(Collector, df_schema.dataguard, inp, collect)
          IN /\ SetCollector(r.c)
             /\ last' = Call("validate", collect, r, HandledErr(inp, r, collect))
    /\ UNCHANGED <<df_schema, expr, objects, memo, check, parsed>>

\* Validator.config_from_mapping of peh_validation_library
PehConfigFromMapping ==
    /\ Room
    /\ \E config \in Configs, collect \in BOOLEAN :
          LET r == peh_config_from_mapping(Collector, config, collect)
              g == peh_get_df_schema(config)
          IN /\ SetCollector(r.c)
             /\ df_schema' = IF r.raised = "none"
                             THEN [df_schema EXCEPT !.peh = r.validator]
                             ELSE df_schema
             /\ last' = Call("peh_config_from_mapping", collect,
                             Result(r.raised, r.c, 0, ConfigPath(g)), Plain(g.raised))
    /\ UNCHANGED <<expr, objects, memo, check, parsed>>

\* validator.validate of peh_validation_library
PehValidate ==
    /\ Room
    /\ df_schema.peh # "no_validator"
    /\ \E inp \in ValidateInputs(RunUnique(df_schema.peh)), collect \in BOOLEAN :
          LET r == peh_validate(Collector, df_schema.peh, inp, collect)
          IN /\ SetCollector(r.c)
             /\ last' = Call("peh_validate", collect, r, HandledErr(inp, r, collect))
    /\ UNCHANGED <<df_schema, expr, objects, memo, check, parsed>>

\* ErrorCollector().add_errors(error) called on the collector itself
AddErrorsCases == {e \in SchemaErrorCases : e.name # "critical"}

AddErrorsInputs ==
    {[kind |-> "SchemaErrors", unique |-> u, schema_errors |-> b]
        : u \in {"None", "ids"}, b \in SeqsUpTo(AddErrorsCases, MaxBatch)}
    \cup {[kind |-> "SchemaError", unique |-> u, check |-> e.check, name |-> e.name,
            title |-> e.title, error |-> e.error, text |-> e.text, str |-> e.str,
            reason |-> e.reason, check_output |-> e.check_output]
             : u \in {"ids", "True"}, e \in AddErrorsCases}
    \cup {[kind |-> "ExceptionSchema", type |-> "ValueError", level |-> "critical",
             error_traceback |-> tb] : tb \in {"format_exc", ""}}

AddErrors ==
    /\ RoomForReports
    /\ \E error \in AddErrorsInputs :
          LET r == add_errors(Collector, error)
          IN /\ SetCollector(r.c)
             /\ last' = Call("add_errors", TRUE, Result(r.raised, r.c, 0, error.kind),
                             IF r.raised = "none" THEN error ELSE NoErr)
    /\ UNCHANGED <<df_schema, expr, objects, memo, check, parsed>>

\* ErrorCollector().clear_errors()
ClearErrors ==
    /\ SetCollector(clear_errors(Collector))
    /\ last' = [Call("clear_errors", TRUE,
                      Result("none", Collector, 0,
                             IF Collector = EmptyCollector THEN "was_empty" ELSE "was_filled"),
                      NoErr)
                   EXCEPT !.pre = [errors |-> <<>>, exceptions |-> <<>>, COUNTER |-> 0,
                                   df_schema |-> df_schema]]
    /\ UNCHANGED <<df_schema, expr, objects, memo, check, parsed>>

\* ErrorCollector().get_errors(): a new ErrorCollectorSchema of the two lists
GetErrors ==
    /\ get_errors(Collector) = [error_reports |-> errors, exceptions |-> exceptions]
    /\ last' = Call("get_errors", TRUE, Result("none", Collector, 0, "none"), NoErr)
    /\ UNCHANGED <<errors, exceptions, COUNTER, df_schema, expr, objects, memo, check, parsed>>

\* the dataguard package: Validator and the collector behind its handlers
Next ==
    \/ ConfigFromMapping
    \/ Validate
    \/ ClearErrors

Spec == Init /\ [][Next]_vars

\* the collector called directly
NextCollector ==
    \/ AddErrors
    \/ ClearErrors

SpecCollector == Init /\ [][NextCollector]_vars

\* the direct calls of the collector together with its snapshots
NextGrowth ==
    \/ AddErrors
    \/ GetErrors
    \/ ClearErrors

SpecGrowth == Init /\ [][NextGrowth]_vars

\* the peh_validation_library package: Validator over add_errors
NextPeh ==
    \/ PehConfigFromMapping
    \/ PehValidate
    \/ ClearErrors

SpecPeh == Init /\ [][NextPeh]_vars

\* ------------------------------------------------ the instances of the class
\* ErrorCollector() without the memo: a new instance at every call
ErrorCollectorUncached(objs, m) ==
    [objects |-> Append(objs, EmptyCollector), memo |-> m, obj |-> Len(objs) + 1]

\* ErrorCollector(): the class is wrapped in functools.cache, so the call
\* constructs an instance only when nothing is memoised for ()
ErrorCollectorCall(objs, m) ==
    IF m # 0 THEN [objects |-> objs, memo |-> m, obj |-> m]
    ELSE [objects |-> Append(objs, EmptyCollector), memo |-> Len(objs) + 1,
          obj |-> Len(objs) + 1]

\* Validator.error_collector = ErrorCollector(), evaluated once when the
\* class body runs: the first instance
ValidatorErrorCollector == 1

\* the ways to reach a collector: the call, the class attribute, and the
\* attribute read through either of two Validator instances
Handles == {"ErrorCollector()", "Validator.error_collector", "validator1.error_collector",
            "validator2.error_collector"}

\* the instance a handle gives, and the instances after asking it
Resolve(h, objs, m) ==
    IF h = "ErrorCollector()" THEN ErrorCollectorCall(objs, m)
    ELSE [objects |-> objs, memo |-> m, obj |-> ValidatorErrorCollector]

\* get_errors() through a handle
View(h) ==
    LET r == Resolve(h, objects, memo)
    IN get_errors(r.objects[r.obj])

SharedPre == [v \in Handles |-> View(v)]

\* validator.config_from_mapping(config) with a configuration that fails
\* and collection on: the handler stores through ErrorCollector()
SharedConfigFromMapping ==
    /\ Len(objects[ValidatorErrorCollector].errors)
         + Len(objects[ValidatorErrorCollector].exceptions) < MaxShared
    /\ Len(objects) <= MaxShared
    /\ \E config \in Configs, validator \in {"validator1", "validator2"} :
          LET g == get_df_schema(config)
              e == ErrorCollectorCall(objects, memo)
              r == config_from_mapping(e.objects[e.obj], config, TRUE)
          IN /\ g.raised # "none"
             /\ objects' = [e.objects EXCEPT ![e.obj] = r.c]
             /\ memo' = e.memo
             /\ last' = [op |-> "shared_config_from_mapping", collect |-> TRUE,
                         raised |-> r.raised, path |-> validator, calls |-> 0,
                         err |-> Plain(g.raised), pre |-> SharedPre]
    /\ UNCHANGED <<errors, exceptions, COUNTER, df_schema, expr, check, parsed>>

\* <handle>.clear_errors()
SharedClearErrors ==
    /\ \E h \in Handles :
          LET e == Resolve(h, objects, memo)
          IN /\ objects' = [e.objects EXCEPT ![e.obj] = clear_errors(@)]
             /\ memo' = e.memo
             /\ last' = [op |-> "shared_clear_errors", collect |-> TRUE,
                         raised |-> "none", path |-> h, calls |-> 0,
                         err |-> NoErr, pre |-> SharedPre]
    /\ UNCHANGED <<errors, exceptions, COUNTER, df_schema, expr, check, parsed>>

NextShared == SharedConfigFromMapping \/ SharedClearErrors

SpecShared == Init /\ [][NextShared]_vars

\* ------------------------------------------- construction of expressions
\* the expressions a constructor call can be given as children
Pool ==
    {SimpleCheckExpression(cmd) : cmd \in Commands}
    \cup (IF expr.raised = "none" /\ Depth(expr.value) < MaxDepth
          THEN {expr.value} ELSE {})

\* SimpleCheckExpression(command=...)
NewSimple ==
    /\ \E cmd \in Commands :
          expr' = [raised |-> "none", value |-> SimpleCheckExpression(cmd),
                   check_case |-> "none", n |-> 0]
    /\ UNCHANGED <<errors, exceptions, COUNTER, df_schema, last, objects, memo, check, parsed>>

\* CaseCheckExpression(check_case=..., expressions=[...])
NewCase ==
    /\ \E check_case \in CheckCases \cup {"negation"}, n \in 0..MaxChildren :
          \E expressions \in [1..n -> Pool] :
             LET r == CaseCheckExpression(check_case, expressions)
             IN expr' = [raised |-> r.raised,
                         value |-> IF r.raised = "none" THEN r.value ELSE expr.value,
                         check_case |-> check_case, n |-> n]
    /\ UNCHANGED <<errors, exceptions, COUNTER, df_schema, last, objects, memo, check, parsed>>

NextExpr == NewSimple \/ NewCase

SpecExpr == Init /\ [][NextExpr]_vars

\* ------------------------------------------------- compilation of checks
Others == <<errors, exceptions, COUNTER, df_schema, last, expr, objects, memo, parsed>>

\* the case expressions over two of the given expressions
CasesOver(kids) ==
    {CaseCheckExpression(check_case, <<a, b>>).value
        : check_case \in CheckCases, a \in kids, b \in kids}

\* the expression compiled last, as a child of a further case expression
Nested == IF check.op # "init" /\ Depth(check.src) < MaxDepth THEN {check.src} ELSE {}

\* the last expression inside a further case expression, beside is_in
Wraps ==
    {CaseCheckExpression(check_case, kids).value
        : check_case \in CheckCases,
          kids \in UNION {{<<n, SimpleCheckExpression("is_in")>>,
                           <<SimpleCheckExpression("is_in"), n>>} : n \in Nested}}

\* CheckSchema.get_schema(check_command) of an expression over the names of
\* the registry
GetSchema ==
    /\ \E e \in {SimpleCheckExpression(c) : c \in Commands}
                \cup CasesOver({SimpleCheckExpression(c) : c \in Commands}) \cup Wraps :
          check' = Compiled("get_schema", NoEntry, e, get_schema(e, "None", "error", "None"))
    /\ UNCHANGED Others

\* the compiled check run on a table
RunCheck ==
    /\ check.op \in {"get_schema", "run"}
    /\ check.raised = "none"
    /\ \E table \in Tables :
          check' = [check EXCEPT !.op = "run", !.table = table,
                                 !.out = RunFn(check.value.fn, table)]
    /\ UNCHANGED Others

NextEval == GetSchema \/ RunCheck

SpecEval == Init /\ [][NextEval]_vars

\* what a check entry may name: a predicate of the registry, a name the
\* registry does not hold, a function
Leaves == {SimpleCheckExpression(c) : c \in Commands \cup Unregistered \cup Callables}

\* the name, error_level and error_msg of a check entry: absent, empty, given
CheckEntries ==
    [name : {"None", "", "my check"}, error_level : {"missing", "warning"},
     error_msg : {"None", "", "my message"}]

\* parse_checks of one check entry
ParseChecks ==
    /\ \/ \E e \in Leaves \cup CasesOver(Leaves), entry \in CheckEntries :
             check' = Compiled("parse_checks", entry, e,
                               parse_checks(entry @@ [check |-> e]))
       \/ \E e \in Wraps :
             check' = Compiled("parse_checks", NoEntry, e,
                               parse_checks(NoEntry @@ [check |-> e]))
    /\ UNCHANGED Others

\* CheckSchema.get_schema of the expression a compilation has resolved
GetSchemaAgain ==
    /\ check.op = "parse_checks"
    /\ check.raised = "none"
    /\ check' = [Compiled("get_schema_again", check.entry, check.src,
                          get_schema(check.check_command, check.entry.name,
                                     check.value.error_level, check.entry.error_msg))
                    EXCEPT !.table = <<>>]
    /\ UNCHANGED Others

NextCompile == ParseChecks \/ GetSchemaAgain

SpecCompile == Init /\ [][NextCompile]_vars

\* ------------------------------------------------- titles and messages
\* the lists of at most n of the given values, in the order given
Prefixes(values, n) == {SubSeq(values, 1, k) : k \in 0..(IF n < Len(values) THEN n ELSE Len(values))}

\* the simple expressions with a subject and arguments
Subjected ==
    {SimpleCheckExpressionOf(command, subject, arg_values, arg_columns)
        : command \in Commands,
          subject \in Prefixes(<<"col1", "col2", "col4">>, MaxArgs),
          arg_values \in Prefixes(<<"a", "b", "c">>, MaxArgs),
          arg_columns \in Prefixes(<<"col3">>, MaxArgs)}

\* the title and the message of an expression, as a call of get_check_title()
\* and of get_check_message() on it gives them; neither assigns to the
\* expression
Derived(e) ==
    Compiled("derive", NoEntry, e,
             [raised |-> "none", arg |-> "none", check_command |-> e,
              value |-> CheckSchema(get_check_title(e), "none", NoExp, "none",
                                    get_check_message(e))])

\* get_check_title() and get_check_message() of a simple expression
DeriveSimple ==
    /\ \E e \in Subjected : check' = Derived(e)
    /\ UNCHANGED Others

\* get_check_title() and get_check_message() of a case expression over the
\* expression derived last
DeriveCase ==
    /\ \E e \in Wraps : check' = Derived(e)
    /\ UNCHANGED Others

NextMessage == DeriveSimple \/ DeriveCase

SpecMessage == Init /\ [][NextMessage]_vars

\* ------------------------------------------- parsing of configurations
\* the check entries of a configuration: a predicate of the registry or a
\* name it does not hold, with none of name, error_level and error_msg, with
\* the name only, or with the three of them
ConfigEntries ==
    {[command |-> c, name |-> m[1], error_level |-> m[2], error_msg |-> m[3]]
        : c \in {"is_null", "is_odd"},
          m \in {<<"None", "missing", "None">>, <<"my check", "missing", "None">>,
                 <<"my check", "warning", "my message">>}}

\* the caller writes the configuration mapping
NewConfig ==
    /\ parsed.op = "init"
    /\ \E columns \in {<<>>} \cup SeqsUpTo(ColumnMappings, MaxColumns),
          checks \in {<<>>} \cup SeqsUpTo(ConfigEntries, MaxChecks),
          ids \in {<<>>, <<"col1">>} :
          LET config == [name |-> "schema", columns |-> columns, ids |-> ids,
                         checks |-> checks]
          IN parsed' = Parsed("new", config, config, 0,
                              [raised |-> "none", value |-> NoDFSchema], <<>>, NoBuilt)
    /\ UNCHANGED <<errors, exceptions, COUNTER, df_schema, last, expr, objects, memo, check>>

\* get_df_schema(config) on the configuration object, as it now is
GetDfSchema ==
    /\ parsed.op # "init"
    /\ parsed.n < MaxParses
    /\ LET r == GetDfSchemaOf(parsed.config)
       IN parsed' = Parsed("get_df_schema", parsed.given, r.config_input, parsed.n + 1,
                           r, Append(parsed.results, [raised |-> r.raised, value |-> r.value]),
                           NoBuilt)
    /\ UNCHANGED <<errors, exceptions, COUNTER, df_schema, last, expr, objects, memo, check>>

\* DFSchema.build() of the schema get_df_schema returned
BuildSchema ==
    /\ parsed.op = "get_df_schema"
    /\ parsed.raised = "none"
    /\ parsed' = [parsed EXCEPT !.op = "build", !.built = DFSchemaBuild(parsed.df_schema)]
    /\ UNCHANGED <<errors, exceptions, COUNTER, df_schema, last, expr, objects, memo, check>>

NextParse == NewConfig \/ GetDfSchema \/ BuildSchema

SpecParse == Init /\ [][NextParse]_vars

\* ------------------------------------------------------------- properties
\* the collector as the last call found it
PreCollector ==
    [errors |-> last.pre.errors, exceptions |-> last.pre.exceptions,
     COUNTER |-> last.pre.COUNTER]

\* entries (reports and exception records) held now, and before the call
Entries == Len(errors) + Len(exceptions)

PreEntries == Len(last.pre.errors) + Len(last.pre.exceptions)

\* the number of records of the first n reports
RECURSIVE Violations(_, _)
Violations(reports, n) ==
    IF n = 0 THEN 0 ELSE Violations(reports, n - 1) + Len(reports[n].errors)

\* the number of violations an add_errors argument carries
Carried(error) ==
    IF error.kind = "SchemaErrors" THEN Len(error.schema_errors) ELSE 1

\* C1: every stored report has as id the number of violations of the reports
\* stored before it since the collector was empty, the counter is the number
\* of violations of all the reports, and an add_errors call that stores k
\* violations stores them as one report whose id is the counter it found and
\* advances the counter by k.
C1_CounterSums ==
    /\ \A i \in 1..Len(errors) : errors[i].id = Violations(errors, i - 1)
    /\ COUNTER = Violations(errors, Len(errors))
    /\ (/\ last.op = "add_errors"
        /\ last.err.kind \in {"SchemaErrors", "SchemaError"}
        /\ last.raised = "none")
       => /\ Len(errors) = Len(last.pre.errors) + 1
          /\ errors[Len(errors)].id = last.pre.COUNTER
          /\ Len(errors[Len(errors)].errors) = Carried(last.err)
          /\ COUNTER = last.pre.COUNTER + Carried(last.err)

\* a second report stored after a report of two violations
C1_Witness ==
    /\ last.op = "add_errors"
    /\ last.raised = "none"
    /\ Len(errors) = 2
    /\ Len(errors[1].errors) = 2
    /\ errors[2].id = 2
    /\ COUNTER > 2

\* the level parse_schema_error gives an element of a batch
DeclaredLevel(e) == IF e.name # "none" THEN e.name ELSE "error"

\* the position of the first critical element of a batch, or its length
FirstCritical(b) ==
    LET crit == {i \in 1..Len(b) : DeclaredLevel(b[i]) = "critical"}
    IN IF crit = {} THEN Len(b) ELSE CHOOSE i \in crit : \A j \in crit : i <= j

\* validate() handled a SchemaErrors batch and a report came out of it
BatchReported ==
    /\ last.op = "validate"
    /\ last.collect
    /\ last.path = "violation"
    /\ last.err.kind = "SchemaErrors"
    /\ Len(errors) = Len(last.pre.errors) + 1

\* C2: the report made of a batch of violations holds, in order, the
\* violations up to and including the first critical one and none after it,
\* so a critical record is the last record of its report.
C2_StopsAtFirstCritical ==
    BatchReported =>
        LET b == last.err.schema_errors
            rep == errors[Len(errors)].errors
            k == FirstCritical(b)
        IN /\ Len(rep) = k
           /\ \A i \in 1..k : /\ rep[i].type = b[i].reason
                              /\ rep[i].level = DeclaredLevel(b[i])
           /\ \A i \in 1..Len(rep) : rep[i].level = "critical" => i = Len(rep)

\* a batch whose first element is critical and is followed by another one
C2_Witness ==
    /\ BatchReported
    /\ Len(last.err.schema_errors) = 2
    /\ Len(errors[Len(errors)].errors) = 1
    /\ errors[Len(errors)].errors[1].level = "critical"

\* the lazy run raised NotImplementedError and the eager run was made
FellBack ==
    /\ last.op = "validate"
    /\ last.collect
    /\ last.path \in {"eager_valid", "eager_violation", "eager_polars", "eager_exception"}

\* the call in which the given outcome is that of the only run
DirectInput(run) == Input("frame", "ok", "ok", "ok", run, Plain("valid"))

\* C3: after NotImplementedError from the lazy run the runtime is called a
\* second time, and the collector ends as a call whose only run had the
\* outcome of the eager run would leave it: nothing of the aborted attempt
\* is stored and nothing is stored twice.
C3_FallbackIsEagerAlone ==
    FellBack =>
        /\ last.calls = 2
        /\ last.raised = "none"
        /\ Entries <= PreEntries + 1
        /\ IF last.err.kind = "NotImplementedError"
           THEN /\ errors = last.pre.errors
                /\ COUNTER = last.pre.COUNTER
                /\ exceptions = Append(last.pre.exceptions,
                                       [type |-> "NotImplementedError",
                                        level |-> "critical"])
           ELSE Collector = validate(PreCollector, last.pre.df_schema.dataguard,
                                     DirectInput(last.err), TRUE).c

\* the eager run found a violation and one report of it is stored
C3_Witness ==
    /\ FellBack
    /\ last.path = "eager_violation"
    /\ last.calls = 2
    /\ exceptions = <<>>
    /\ Len(errors) = Len(last.pre.errors) + 1
    /\ errors[Len(errors)].errors[1].type = last.err.reason

\* the ways a call of config_from_mapping() or validate() meets an error
ErrorPaths ==
    {"config_error", "read_failed", "build_failed", "cast_failed", "cast_exception",
     "polars", "violation", "exception", "eager_polars", "eager_violation",
     "eager_exception"}

ValidatorCall == last.op \in {"config_from_mapping", "validate"}

\* C4: with collect_exceptions false a call that meets a configuration
\* error, a violation or an exception raises it to the caller and leaves the
\* reports, the exception records and the counter as they were.
C4_RaisesAndLeavesCollector ==
    (ValidatorCall /\ ~last.collect /\ last.path \in ErrorPaths) =>
        /\ last.raised # "none"
        /\ Collector = PreCollector
        /\ df_schema = last.pre.df_schema
        /\ last.path = "config_error" => last.raised = last.err.kind
        /\ last.path = "violation" => last.raised \in {"SchemaErrors", "SchemaError"}
        /\ last.path = "eager_violation" => last.raised = "SchemaError"
        /\ last.path = "cast_failed" => last.raised = "InvalidOperationError"

\* a batch of violations raised to the caller, nothing of it stored
C4_Witness ==
    /\ last.op = "validate"
    /\ ~last.collect
    /\ last.path = "violation"
    /\ last.raised = "SchemaErrors"
    /\ Entries = PreEntries

\* C5: with collect_exceptions true config_from_mapping() and validate()
\* return normally whatever happens, and a call that met an error leaves
\* one more entry in the collector.
C5_CollectsAndReturns ==
    (ValidatorCall /\ last.collect) =>
        /\ last.raised = "none"
        /\ last.path \in ErrorPaths => Entries = PreEntries + 1

\* an exception of the eager run, recorded
C5_Witness ==
    /\ last.op = "validate"
    /\ last.collect
    /\ last.path = "eager_exception"
    /\ last.raised = "none"
    /\ Len(exceptions) = Len(last.pre.exceptions) + 1

\* get_df_schema failed inside a collecting config_from_mapping()
CompilerFailed ==
    /\ last.op = "config_from_mapping"
    /\ last.collect
    /\ last.path = "config_error"

\* the classes config_from_mapping() hands to error_handler
ConfigErrors == {"KeyError", "AttributeError", "TypeError", "ValidationError"}

\* the one-record report error_handler stores was appended for class cls
CriticalReportAppended(cls) ==
    /\ Len(errors) = Len(last.pre.errors) + 1
    /\ SubSeq(errors, 1, Len(last.pre.errors)) = last.pre.errors
    /\ errors[Len(errors)].name = "Critical Error Report"
    /\ errors[Len(errors)].total_errors = 1
    /\ Len(errors[Len(errors)].errors) = 1
    /\ errors[Len(errors)].errors[1].type = cls
    /\ errors[Len(errors)].errors[1].level = "critical"
    /\ exceptions = last.pre.exceptions

\* one exception record of class cls and level critical was appended
ExceptionAppended(cls) ==
    /\ exceptions = Append(last.pre.exceptions, [type |-> cls, level |-> "critical"])
    /\ errors = last.pre.errors
    /\ COUNTER = last.pre.COUNTER

\* C6 as stated: a failure of the schema compiler under collection appends
\* exactly one exception record (the class name, critical) and no report,
\* and the validator returned holds no schema.
C6_AsStated ==
    CompilerFailed =>
        /\ ExceptionAppended(last.err.kind)
        /\ df_schema.dataguard = "unset"

\* C6: a failure of the schema compiler under collection returns normally a
\* validator that holds no schema; a KeyError, AttributeError, TypeError or
\* ValidationError is stored as a one-record 'Critical Error Report' (the
\* class name, critical) and no exception record, any other exception as
\* exactly one exception record (the class name, critical) and no report.
C6_CompilerFailureRecorded ==
    CompilerFailed =>
        /\ last.raised = "none"
        /\ df_schema.dataguard = "unset"
        /\ IF last.err.kind \in ConfigErrors
           THEN CriticalReportAppended(last.err.kind)
           ELSE ExceptionAppended(last.err.kind)

\* a mapping without a key, stored as a report
C6_Witness ==
    /\ CompilerFailed
    /\ last.err.kind = "KeyError"
    /\ exceptions = <<>>
    /\ Len(errors) = Len(last.pre.errors) + 1
    /\ df_schema.dataguard = "unset"

CastFailed ==
    /\ last.op = "validate"
    /\ last.collect
    /\ last.path \in {"cast_failed", "cast_exception"}

C9_ValidAppendsNothing ==
    (last.op = "validate" /\ last.path \in {"valid", "eager_valid"}) =>
        /\ Collector = PreCollector
        /\ last.raised = "none"
        /\ last.calls >= 1

\* a schema without columns, ids and checks found valid under collection,
\* with nothing in the collector
C9_Witness ==
    /\ last.op = "validate"
    /\ last.collect
    /\ last.path = "valid"
    /\ df_schema.dataguard = "empty"
    /\ errors = <<>>
    /\ exceptions = <<>>

\* every CaseCheckExpression inside e has exactly two expressions
RECURSIVE TwoChildren(_)
TwoChildren(e) ==
    \/ e.tag = "simple"
    \/ /\ Len(e.expressions) = 2
       /\ \A i \in 1..Len(e.expressions) : TwoChildren(e.expressions[i])

\* C10: for each of condition, conjunction and disjunction the constructor
\* given a number of expressions other than two raises ValidationError, and
\* every CaseCheckExpression that exists, at any depth, has exactly two.
C10_ExactlyTwoChildren ==
    /\ (expr.check_case \in CheckCases /\ expr.n # 2) => expr.raised = "ValidationError"
    /\ TwoChildren(expr.value)

\* a conjunction of three expressions rejected while a nested expression
\* exists
C10_Witness ==
    /\ expr.check_case = "conjunction"
    /\ expr.n = 3
    /\ expr.raised = "ValidationError"
    /\ Depth(expr.value) = 2

\* C11: clear_errors() leaves no report, no exception record and the counter
\* at zero, which is the collector as first constructed, so the next report
\* stored gets id 0; a clear_errors() right after a clear_errors() changes
\* nothing.
C11_ClearResets ==
    /\ [](last.op = "clear_errors" => Collector = EmptyCollector)
    /\ []((last.op = "add_errors" /\ last.raised = "none" /\ last.pre.COUNTER = 0
              /\ Len(errors) = 1)
            => (last.pre.errors = <<>> /\ errors[1].id = 0))
    /\ [][(last.op = "clear_errors" /\ last'.op = "clear_errors")
            => (errors' = errors /\ exceptions' = exceptions /\ COUNTER' = COUNTER)]_vars

\* clear_errors() on a collector that held something
C11_Witness ==
    /\ last.op = "clear_errors"
    /\ last.path = "was_filled"
    /\ errors = <<>>
    /\ exceptions = <<>>
    /\ COUNTER = 0

\* an ExceptionSchema was handed to add_errors
ExceptionGiven == last.op = "add_errors" /\ last.path = "ExceptionSchema"

\* a SchemaError or SchemaErrors was handed to add_errors and a report stored
ReportStored ==
    /\ last.op = "add_errors"
    /\ last.path \in {"SchemaErrors", "SchemaError"}
    /\ last.raised = "none"

\* C12: add_errors given an exception record appends it at the end of the
\* exceptions and leaves the reports and the counter as they were; add_errors
\* storing a report leaves the exceptions as they were; no report is among
\* the exceptions and no exception record among the reports.
C12_SeparateSequences ==
    /\ ExceptionGiven =>
          /\ last.raised = "none"
          /\ exceptions = Append(last.pre.exceptions,
                                 [type |-> "ValueError", level |-> "critical"])
          /\ errors = last.pre.errors
          /\ COUNTER = last.pre.COUNTER
    /\ ReportStored =>
          /\ exceptions = last.pre.exceptions
          /\ Len(errors) = Len(last.pre.errors) + 1
    /\ \A i \in 1..Len(exceptions) : DOMAIN exceptions[i] = {"type", "level"}
    /\ \A i \in 1..Len(errors) :
          DOMAIN errors[i] = {"name", "errors", "total_errors", "id"}

\* C13: ErrorCollector() always gives the instance the Validator class
\* holds, so there is one instance; what a handler stores during a
\* validator's config_from_mapping() is seen by get_errors() through the
\* call, the class and every validator alike, and clear_errors() through
\* any of them empties what all of them see.
C13_OneCollector ==
    /\ Len(objects) = 1
    /\ memo = ValidatorErrorCollector
    /\ \A h1, h2 \in Handles : View(h1) = View(h2)
    /\ last.op = "shared_config_from_mapping" =>
          \A h \in Handles :
             Len(View(h).error_reports) + Len(View(h).exceptions)
                = Len(last.pre[h].error_reports) + Len(last.pre[h].exceptions) + 1
    /\ last.op = "shared_clear_errors" =>
          \A h \in Handles : View(h) = [error_reports |-> <<>>, exceptions |-> <<>>]

\* a report stored during a call of the second validator after an exception
\* record stored during a call of the first
C13_Witness ==
    /\ last.op = "shared_config_from_mapping"
    /\ last.path = "validator2"
    /\ Len(View("validator1.error_collector").error_reports) = 1
    /\ Len(View("ErrorCollector()").exceptions) = 1

IsPrefix(a, b) == Len(a) <= Len(b) /\ SubSeq(b, 1, Len(a)) = a

ChildOut(k) ==
    RunFn(get_schema(check.src.expressions[k], "None", "error", "None").value.fn,
          check.table)

RECURSIVE LeafCommands(_)
LeafCommands(e) ==
    IF e.tag = "simple" THEN {e.command}
    ELSE UNION {LeafCommands(e.expressions[i]) : i \in 1..Len(e.expressions)}

\* b is a with each name replaced by the registry's implementation and each
\* function left as it is
RECURSIVE ResolvedFrom(_, _)
ResolvedFrom(a, b) ==
    IF a.tag = "simple"
    THEN /\ b.tag = "simple"
         /\ b.command = IF callable(a.command) THEN a.command
                        ELSE expression_mapper[a.command]
    ELSE /\ b.tag = "case"
         /\ b.check_case = a.check_case
         /\ Len(b.expressions) = Len(a.expressions)
         /\ \A i \in 1..Len(a.expressions) : ResolvedFrom(a.expressions[i], b.expressions[i])

\* C16: compiling an expression whose leaves are names of the registry or
\* functions succeeds, as a check by itself and inside a case expression,
\* with each name resolved and each function kept as it is; compiling the
\* resolved expression once more succeeds as well.
C16_CallablesCompile ==
    /\ (check.op = "parse_checks" /\ LeafCommands(check.src) \cap Unregistered = {}) =>
          /\ check.raised = "none"
          /\ ResolvedFrom(check.src, check.check_command)
    /\ check.op = "get_schema_again" => check.raised = "none"

\* C17: compiling a check entry that names a predicate the registry does not
\* hold, by itself or inside a case expression, raises an exception whose
\* argument is the name that was not found, and yields no check.
C17_UnregisteredIsNamed ==
    (check.op = "parse_checks" /\ LeafCommands(check.src) \cap Unregistered # {}) =>
       /\ check.raised # "none"
       /\ check.value = NoCheck
       /\ check.arg \in LeafCommands(check.src) \cap Unregistered

\* what is wrong with the configuration of the last config_from_mapping, in
\* the words of the failure policy
MissingKey(config) ==
    \/ config.name = "missing"
    \/ config.columns = "missing"
    \/ config.columns \in ColumnWithout

WrongValueType(config) ==
    /\ ~MissingKey(config)
    /\ \/ config.name = "int"
       \/ config.columns \in {"str", "bad_data_type"}
       \/ config.ids = "int"
       \/ config.checks = "str"

InvalidCase(config) ==
    /\ ~MissingKey(config)
    /\ ~WrongValueType(config)
    /\ config.checks \in {"three_expressions", "unknown_case"}

EntryCompiled == check.op = "parse_checks" /\ check.raised = "none"

\* C19 as stated: the compiled check carries the name, error_level and
\* error_msg of its entry whenever the entry gives them, and the derived
\* title, error and the derived message where the entry has none.
C19_AsStated ==
    EntryCompiled =>
       /\ check.value.name = IF check.entry.name = "None"
                             THEN get_check_title(check.src) ELSE <<check.entry.name>>
       /\ check.value.error_level = IF check.entry.error_level = "missing"
                                    THEN "error" ELSE check.entry.error_level
       /\ check.value.error_msg = IF check.entry.error_msg = "None"
                                  THEN get_check_message(check.src)
                                  ELSE <<check.entry.error_msg>>

\* C19: the compiled check carries the name and the error_msg of its entry
\* when they are given and not empty, and the error_level when it is given;
\* a name or error_msg that is absent or the empty string is replaced by the
\* title or message derived from the expression, and an absent error_level
\* by error.
C19_EntryOverridesUnlessEmpty ==
    EntryCompiled =>
       /\ check.value.name = IF check.entry.name \in {"None", ""}
                             THEN get_check_title(check.src) ELSE <<check.entry.name>>
       /\ check.value.error_level = IF check.entry.error_level = "missing"
                                    THEN "error" ELSE check.entry.error_level
       /\ check.value.error_msg = IF check.entry.error_msg \in {"None", ""}
                                  THEN get_check_message(check.src)
                                  ELSE <<check.entry.error_msg>>

\* a case expression compiled from an entry with a name, a severity and an
\* empty message
C19_Witness ==
    /\ EntryCompiled
    /\ check.src.tag = "case"
    /\ check.entry = [name |-> "my check", error_level |-> "warning", error_msg |-> ""]
    /\ check.value.name = <<"my check">>
    /\ check.value.error_level = "warning"
    /\ Len(check.value.error_msg) > 1

\* the structured violations the last validate() handed to the handler
Handled ==
    IF last.err.kind = "SchemaErrors" THEN last.err.schema_errors ELSE <<last.err>>

\* row_ids is the ascending list of the zero-based positions at which the
\* check output is false, and empty where there is no output
FalsePositions(row_ids, check_output) ==
    LET failing == IF check_output.none THEN {}
                   ELSE {i - 1 : i \in {j \in 1..Len(check_output.mask)
                                           : check_output.mask[j] = "false"}}
    IN /\ {row_ids[k] : k \in 1..Len(row_ids)} = failing
       /\ Len(row_ids) = Cardinality(failing)
       /\ \A k \in 1..Len(row_ids) - 1 : row_ids[k] < row_ids[k + 1]

\* C20: a validate() that hands violations to the handler, their schema
\* declaring a key list, stores a report whose records carry as row_ids the
\* ascending zero-based positions at which the check output is false (true
\* and null left out), and the empty list for a violation that has no check
\* output, for which a record is stored all the same.
C20_RowIdsAreFalsePositions ==
    (/\ last.op = "validate"
     /\ last.collect
     /\ last.path \in {"violation", "eager_violation"}
     /\ last.err.unique \in {"empty", "ids"}) =>
        /\ Len(errors) = Len(last.pre.errors) + 1
        /\ LET records == errors[Len(errors)].errors
           IN \A k \in 1..Len(records) :
                 FalsePositions(records[k].row_ids, Handled[k].check_output)

\* validate() handed violations to the handler and a report came out of it
ViolationReported ==
    /\ last.op = "validate"
    /\ last.collect
    /\ last.path \in {"violation", "eager_violation"}
    /\ Len(errors) = Len(last.pre.errors) + 1

\* the level of a violation whose check declares none
DefaultLevel == IF last.err.kind = "SchemaErrors" THEN "error" ELSE "critical"

\* C21: in the report validate() stores for the violations it handled, the
\* record of a violation of a named check carries the level, the message and
\* the title the check declares, as they are, and the record of a violation
\* whose check is a bare string carries that string as its title and the
\* default level.
C21_CarriesDeclaredMetadata ==
    ViolationReported =>
        LET records == errors[Len(errors)].errors
        IN \A k \in 1..Len(records) :
              IF Handled[k].check = "Check"
              THEN /\ records[k].level = Handled[k].name
                   /\ records[k].message = Handled[k].error
                   /\ records[k].title = Handled[k].title
              ELSE /\ records[k].title = Handled[k].text
                   /\ records[k].level = DefaultLevel

\* get_df_schema returned a schema for the configuration
SchemaParsed == parsed.op \in {"get_df_schema", "build"} /\ parsed.raised = "none"

\* C22: the DFSchema get_df_schema returns has pairwise distinct column ids,
\* and the schema DFSchema.build() makes of it holds, under its id, the
\* definition of every column the configuration lists: no column definition
\* takes the place of another.
C22_ColumnIdsDistinct ==
    /\ SchemaParsed =>
          \A i, j \in 1..Len(parsed.df_schema.columns) :
             i # j => parsed.df_schema.columns[i].id # parsed.df_schema.columns[j].id
    /\ parsed.op = "build" =>
          \A i \in 1..Len(parsed.given.columns) :
             /\ parsed.given.columns[i].id \in DOMAIN parsed.built.columns
             /\ parsed.built.columns[parsed.given.columns[i].id]
                   = ColSchemaBuild(ColSchema(parsed.given.columns[i]))

\* a predicate name with its underscores replaced by spaces, in lower case
Humanized(p) ==
    CASE p = "is_null" -> "is null"
      [] p = "is_in" -> "is in"

\* Column(s) "c" <p humanized>
SubjectMessage(c, p) == <<"Column(s) ", "\"", c, "\"", " ", Humanized(p)>>

\* get_check_message() was called on a simple expression whose subject is
\* one column
OneSubjectDerived ==
    /\ check.op = "derive"
    /\ check.src.tag = "simple"
    /\ Len(check.src.subject) = 1

\* C23 as stated: the message of a simple expression with predicate name p
\* and subject [c] is `Column(s) "c" <p humanized>`, whatever else the
\* expression holds.
C23_AsStated ==
    OneSubjectDerived =>
        check.value.error_msg = SubjectMessage(check.src.subject[1], check.src.command)

\* C23: the message of a simple expression with predicate name p and subject
\* [c] begins with `Column(s) "c" <p humanized>`; it is that text when the
\* expression has neither arg_values nor arg_columns, and otherwise a space
\* and the arg_values, or without arg_values the arg_columns, follow it (one
\* element between double quotes, several as the list).
C23_SubjectThenArguments ==
    OneSubjectDerived =>
        LET e == check.src
            stated == SubjectMessage(e.subject[1], e.command)
        IN /\ IsPrefix(stated, check.value.error_msg)
           /\ (e.arg_values = <<>> /\ e.arg_columns = <<>>) => check.value.error_msg = stated
           /\ e.arg_values # <<>> =>
                 check.value.error_msg = stated \o <<" ">> \o get_args_string(e.arg_values)
           /\ (e.arg_values = <<>> /\ e.arg_columns # <<>>) =>
                 check.value.error_msg = stated \o <<" ">> \o get_args_string(e.arg_columns)

\* the message of is_in with subject ['col1'] and arg_values ['a']
C23_Witness ==
    /\ OneSubjectDerived
    /\ check.src.arg_values = <<"a">>
    /\ check.value.error_msg
          = <<"Column(s) ", "\"", "col1", "\"", " ", "is in", " ", "\"", "a", "\"">>

\* get_check_title() and get_check_message() were called on a case expression
CaseDerived == check.op = "derive" /\ check.src.tag = "case"

\* two texts with a third between them
Joined(a, between, b) == a \o <<between>> \o b

\* C24: the title and the message of a case expression are made of the
\* titles and the messages of its two children, the first child first:
\* "When <title0>, Then <title1>" and "When <message0> Then <message1>" for a
\* condition, the two joined by " and " for a conjunction and by " or " for
\* a disjunction; the derivation returns for every expression, and leaves the
\* expression as it was.
C24_DerivedFromChildrenInOrder ==
    CaseDerived =>
        LET e == check.src
            title0 == get_check_title(e.expressions[1])
            title1 == get_check_title(e.expressions[2])
            message0 == get_check_message(e.expressions[1])
            message1 == get_check_message(e.expressions[2])
        IN /\ check.raised = "none"
           /\ check.check_command = e
           /\ e.check_case = "condition" =>
                 /\ check.value.name = <<"When ">> \o Joined(title0, ", Then ", title1)
                 /\ check.value.error_msg = <<"When ">> \o Joined(message0, " Then ", message1)
           /\ e.check_case = "conjunction" =>
                 /\ check.value.name = Joined(title0, " and ", title1)
                 /\ check.value.error_msg = Joined(message0, " and ", message1)
           /\ e.check_case = "disjunction" =>
                 /\ check.value.name = Joined(title0, " or ", title1)
                 /\ check.value.error_msg = Joined(message0, " or ", message1)

\* the condition whose first child is the conjunction of is_null on col1 and
\* is_in, and whose second child is is_in
C24_Witness ==
    /\ CaseDerived
    /\ check.src.check_case = "condition"
    /\ check.src.expressions[1].tag = "case"
    /\ check.value.name = <<"When ", "Is null", " and ", "Is in", ", Then ", "Is in">>
    /\ check.value.error_msg
          = <<"When ", "Column(s) ", "\"", "col1", "\"", " ", "is null", " and ",
              "The column under validation ", "is in", " Then ",
              "The column under validation ", "is in">>

\* every stored report holds a record, and counts its records
ReportsCounted ==
    \A i \in 1..Len(errors) :
       /\ Len(errors[i].errors) >= 1
       /\ errors[i].total_errors = Len(errors[i].errors)

\* a collecting validate() in which the runtime raised no violation
NoViolationPass ==
    /\ last.op = "validate"
    /\ last.collect
    /\ last.path \notin {"violation", "eager_violation"}

\* C25 as stated: every stored report has at least one record and its
\* total_errors is the number of its records, and a validate() in which no
\* violation was raised stores no report.
C25_AsStated ==
    /\ ReportsCounted
    /\ NoViolationPass => errors = last.pre.errors

\* C25: every stored report has at least one record and its total_errors is
\* the number of its records; a validate() in which the runtime finds the
\* data valid stores nothing; a validate() that stores a report without a
\* violation having been raised met an error of the table engine (reading,
\* casting or running), and the report is a 'Critical Error Report' of one
\* critical record.
C25_ReportsHoldRecords ==
    /\ ReportsCounted
    /\ (last.op = "validate" /\ last.collect /\ last.path \in {"valid", "eager_valid"})
          => Collector = PreCollector
    /\ (NoViolationPass /\ errors # last.pre.errors) =>
          /\ last.path \in {"read_failed", "cast_failed", "polars", "eager_polars"}
          /\ Len(errors) = Len(last.pre.errors) + 1
          /\ errors[Len(errors)].name = "Critical Error Report"
          /\ errors[Len(errors)].total_errors = 1
          /\ errors[Len(errors)].errors[1].level = "critical"

\* a batch of two violations stored as a report of two records that counts two
C25_Witness ==
    /\ BatchReported
    /\ Len(last.err.schema_errors) = 2
    /\ Len(errors[Len(errors)].errors) = 2
    /\ errors[Len(errors)].total_errors = 2

\* C26: a collecting call of validate() or of config_from_mapping() keeps
\* the entries the collector held and appends at most one entry: one report
\* or one exception record, not one of each and not two of either.
C26_AtMostOneEntry ==
    (ValidatorCall /\ last.collect) =>
        /\ IsPrefix(last.pre.errors, errors)
        /\ IsPrefix(last.pre.exceptions, exceptions)
        /\ (Len(errors) - Len(last.pre.errors))
              + (Len(exceptions) - Len(last.pre.exceptions)) <= 1

\* a batch whose handling raised inside the handler: one exception record,
\* and no report beside it
C26_Witness ==
    /\ last.op = "validate"
    /\ last.collect
    /\ last.path = "violation"
    /\ Len(errors) = Len(last.pre.errors)
    /\ Len(exceptions) = Len(last.pre.exceptions) + 1

\* a call of validate() of either package
ValidateCall == last.op \in {"validate", "peh_validate"}

\* the eager run raised what no handler of the eager run catches
EagerFailed == ValidateCall /\ last.path = "eager_exception"

\* C27: validate() calls the validation runtime at most twice, the second
\* time only after NotImplementedError from the first; when the eager run
\* raises NotImplementedError or another unexpected exception there is no
\* third call, and the exception is appended as one exception record when
\* collection is enabled and raised to the caller when it is not.
C27_AtMostTwoRuns ==
    /\ ValidateCall => last.calls <= 2
    /\ EagerFailed =>
          /\ last.calls = 2
          /\ IF last.collect
             THEN /\ last.raised = "none"
                  /\ Len(exceptions) = Len(last.pre.exceptions) + 1
                  /\ exceptions[Len(exceptions)].level = "critical"
                  /\ errors = last.pre.errors
             ELSE /\ last.raised # "none"
                  /\ Collector = PreCollector

\* C28: every record of the report validate() stores for the violations it
\* handled carries as idx_columns the key list the schema of the run
\* declares, and the empty list when the schema declares none; the
\* violations of a schema without a key list are stored as a report all the
\* same, and not as an exception record.
C28_KeyColumnsOfSchema ==
    (/\ last.op = "validate"
     /\ last.collect
     /\ last.path \in {"violation", "eager_violation"}) =>
        /\ Len(errors) = Len(last.pre.errors) + 1
        /\ exceptions = last.pre.exceptions
        /\ LET records == errors[Len(errors)].errors
           IN \A k \in 1..Len(records) :
                 records[k].idx_columns
                    = IF last.err.unique = "ids" THEN "ids" ELSE "empty"

\* C29: in the report validate() stores for the violations it handled, a
\* record has the level its check declares; the record of a violation whose
\* check declares none has level critical when the violation came alone (a
\* SchemaError) and level error when it came in a batch (SchemaErrors).
C29_DefaultLevelByPath ==
    ViolationReported =>
        LET records == errors[Len(errors)].errors
        IN \A k \in 1..Len(records) :
              records[k].level = IF Handled[k].name # "none" THEN Handled[k].name
                                 ELSE IF last.err.kind = "SchemaError" THEN "critical"
                                 ELSE "error"

\* a violation without a declared level that came alone and is recorded as
\* critical
C29_Witness ==
    /\ ViolationReported
    /\ last.err.kind = "SchemaError"
    /\ last.err.name = "none"
    /\ errors[Len(errors)].errors[1].level = "critical"

\* get_df_schema was called on the configuration object
ConfigParsed == parsed.op \in {"get_df_schema", "build"}

\* C30: get_df_schema leaves the configuration mapping as the caller wrote
\* it, every check entry with its name, error_level and error_msg, and a
\* second call on the same object returns checks of the same names, levels
\* and messages as the first.
C30_ParsingLeavesConfig ==
    /\ ConfigParsed => parsed.config = parsed.given
    /\ (ConfigParsed /\ parsed.n = 2) =>
          LET first == parsed.results[1]
              second == parsed.results[2]
          IN /\ first.raised = second.raised
             /\ Len(first.value.checks) = Len(second.value.checks)
             /\ \A i \in 1..Len(first.value.checks) :
                   /\ first.value.checks[i].name = second.value.checks[i].name
                   /\ first.value.checks[i].error_level
                         = second.value.checks[i].error_level
                   /\ first.value.checks[i].error_msg = second.value.checks[i].error_msg

====
